---- MODULE Spec2Model ----
(***************************************************************************)
(* kube-ssm-proxy: the tunnel lifecycle manager of internal/ssm            *)
(* (port allocator, forward launcher, process scanner, lifecycle           *)
(* controller) together with the kubeconfig registry operations it calls.  *)
(*                                                                         *)
(* The operating system is the environment: the set of local ports that    *)
(* accept TCP connections and the process table change at any time, the    *)
(* filesystem and the process spawner may fail.                            *)
(***************************************************************************)
EXTENDS Integers, Sequences, FiniteSets, TLC

(***************************************************************************)
(* Bounds of the model                                                     *)
(***************************************************************************)
\* number of ports of the ephemeral range that are modelled
NumPorts == 3
\* number of cluster entries of the kubeconfig registry
NumClusters == 2
\* number of lines the child process writes to its log
MaxLogLines == 1
\* number of process identifiers of the process table
MaxProcs == 3
\* number of distinct target hosts
NumHosts == 2
\* number of tokens of a target host string
MaxHostLen == 2
\* number of key=value parameters of a ps line that no launch produced
MaxParams == 3
\* number of entries of the log directory
MaxFiles == 2
\* number of hours that pass
MaxTicks == 2
\* number of CleanOldLogs calls
MaxCleans == 2
\* number of bytes the child writes to its output
MaxBytes == 4
\* number of runs of the program
MaxRuns == 2
\* number of kill-all actions of a run that are counted
MaxKillAlls == 1

(***************************************************************************)
(* Program constants                                                       *)
(***************************************************************************)
\* first port of the scanned range
PortLo == 49152
\* last port of the scanned range (65535 in the program: the range is cut
\* to NumPorts ports)
PortHi == PortLo + NumPorts - 1
PortRange == PortLo..PortHi
\* number of readiness probes of StartForward
maxAttempts == 60

Names == 1..NumClusters
Pids == 1..MaxProcs
Hosts == 1..NumHosts
\* target port of a forward
DefaultTargetPort == 443

\* the error value of a port result
NoPort == 0

VARIABLES
    \* ---- operating system ----
    listening,      \* ports on which a TCP connect to localhost succeeds
    registry,       \* kubeconfig clusters: name -> server
    \* ---- one StartForward call ----
    sfPc,           \* position in StartForward
    reservedPorts,  \* the reservedPorts argument
    port,           \* the allocated port (NoPort before allocation)
    markCalls,      \* the markInactive(port) calls made so far, in order
    logFile,        \* contents of the session log, <<>> while not created
    logOpen,        \* the log file exists
    child,          \* launched process: "none", "running", "exited", or
                    \* "killed" by what the end of the launcher did to it
    cmdline,        \* --parameters of the launched command line
    exited,         \* number of values buffered in the exited channel
    waited,         \* the exit-observer goroutine has posted
    attempt,        \* loop variable of the readiness poll
    outcome,        \* what StartForward returned
    \* ---- process table and one scan of it ----
    procs,          \* pid -> command line of the process, as ps prints it
    psOut,          \* the output of ps that the running scan iterates over
    scanIdx,        \* line the scan examines next, 0 when no scan runs
    seenPorts,      \* seenPorts of the scan
    forwards,       \* forwards of the scan, then of the lifecycle operation
    probeAt,        \* state of a line's local port when the scan reached it
    \* ---- one StopAll or PruneDuplicates call ----
    lcOp,           \* the operation that runs or ran last: StopAll,
                    \* PruneDuplicates or displayForwards
    lcPc,           \* position in it
    hostsLeft,      \* keys of byTarget not yet ranged over
    victims,        \* forwards still to be given to killProcess
    count,          \* count / total
    signals,        \* <<pid, signal>> delivered by killProcess in this call
    kills,          \* the killProcess calls of this call and what they returned
    sent,           \* the Signal calls of this call, in order, and who got them
    result,         \* the returned count and whether the scan failed
    \* ---- one line of ps and its parse ----
    launch,         \* the StartForward arguments and pid behind the line
    foreign,        \* the pid field and parameters of a line of another origin
    psLine,         \* the line as ps prints it
    parsed,         \* what parseLine returned for it
    \* ---- the log directory and CleanOldLogs ----
    logDir,         \* entry -> its kind and modification time
    now,            \* the clock, in hours
    dirReadable,    \* os.ReadDir of the log directory succeeds
    cleanedAt,      \* the clock at the last CleanOldLogs call, if any
    changedSince,   \* a file was created or written since that call
    cleanLog,       \* the entries each CleanOldLogs call removed
    logOwner,       \* entry -> the tunnel that writes to it: "none" for a
                    \* file of another origin, "alive" or "gone"
    \* ---- the launching process ----
    launcher,       \* "running", "interrupted" or "returned"
    \* ---- a second instance of the program in StartForward ----
    peerPc,         \* its position
    peerReserved,   \* its reservedPorts argument
    peerPort,       \* its allocated port
    \* ---- the timestampWriter of a session log ----
    twPending,      \* bytes the child has yet to write
    twWritten,      \* the bytes passed to Write so far
    twBuf,          \* tw.buf
    twOut,          \* what the writer has written to tw.w
    twCalls,        \* the Write calls made so far, the clock of the writer
    twRet,          \* the last Write: the length of p and the count returned
    \* ---- one call of a registry operation ----
    regPrev,        \* the registry before the call
    regCall,        \* the operation, its port, the clusters kubectl failed for
    \* ---- runs of the program, one after the other ----
    mainPc,         \* position in main, "off" while the program does not run
    headless,       \* KUBECTL_SSM_HEADLESS_SELECTION of the run
    selected,       \* the cluster the selector returned
    mainPort,       \* the port StartForward allocated in connectSSM
    mainRes,        \* how the last run ended and which way it connected
    killAlls,       \* kill-all actions of the run, counted up to the bound
    runs,           \* runs started so far
    kubectlFailed   \* some kubectl command of a run has failed so far

envVars == <<listening, registry>>
sfVars == <<sfPc, reservedPorts, port, markCalls, logFile, logOpen, child,
            cmdline, exited, waited, attempt, outcome>>
scanVars == <<psOut, scanIdx, seenPorts, probeAt>>
lcVars == <<lcOp, lcPc, hostsLeft, victims, count, signals, kills, sent,
           result>>
\* everything outside one StartForward call and its registry
tableVars == <<procs, psOut, scanIdx, seenPorts, forwards, probeAt,
               lcOp, lcPc, hostsLeft, victims, count, signals, kills, sent,
               result>>
\* the state of the operations that are specified on their own
parseVars == <<launch, foreign, psLine, parsed>>
cleanVars == <<logDir, now, dirReadable, cleanedAt, changedSince, cleanLog,
               logOwner>>
launcherVars == <<launcher>>
peerVars == <<peerPc, peerReserved, peerPort>>
writerVars == <<twPending, twWritten, twBuf, twOut, twCalls, twRet>>
\* the state of the parts that are specified last
regVars == <<regPrev, regCall>>
mainVars == <<mainPc, headless, selected, mainPort, mainRes, killAlls, runs,
              kubectlFailed>>
moreVars == <<writerVars, regVars, mainVars>>
extraVars == <<parseVars, cleanVars, launcherVars, peerVars, moreVars>>
vars == <<listening, registry, sfPc, reservedPorts, port, markCalls, logFile,
          logOpen, child, cmdline, exited, waited, attempt, outcome,
          procs, psOut, scanIdx, seenPorts, forwards, probeAt,
          lcOp, lcPc, hostsLeft, victims, count, signals, kills, sent,
          result, launch, foreign, psLine, parsed,
          logDir, now, dirReadable, cleanedAt, changedSince, cleanLog,
          logOwner,
          launcher, peerPc, peerReserved, peerPort,
          twPending, twWritten, twBuf, twOut, twCalls, twRet,
          regPrev, regCall,
          mainPc, headless, selected, mainPort, mainRes, killAlls, runs,
          kubectlFailed>>

(***************************************************************************)
(* Port utilities                                                          *)
(***************************************************************************)
\* true iff a TCP connect to localhost:p succeeds, L being the ports that
\* accept connections at the time of the probe
IsPortListening(p, L) == p \in L

\* the loop of FindAvailablePort from port p on
RECURSIVE ProbeFrom(_, _, _)
ProbeFrom(p, reserved, L) ==
    IF p > PortHi THEN [port |-> NoPort, err |-> "NoPortAvailable"]
    ELSE IF p \in reserved THEN ProbeFrom(p + 1, reserved, L)
    ELSE IF ~IsPortListening(p, L) THEN [port |-> p, err |-> "nil"]
    ELSE ProbeFrom(p + 1, reserved, L)

\* FindAvailablePort without the reserved[port] test
FindAvailablePort_IgnoresReserved(reserved, L) == ProbeFrom(PortLo, {}, L)

\* first free TCP port of the range, skipping reserved and listening ports
FindAvailablePort(reserved, L) == ProbeFrom(PortLo, reserved, L)

(***************************************************************************)
(* Strings                                                                 *)
(*                                                                         *)
(* A string is a sequence of tokens.  A token is one character (space,     *)
(* comma, a letter) or a word the code writes or searches for as a whole   *)
(* (a key, the https:// prefix, a decimal numeral, an argument), standing  *)
(* for its characters; no two numerals are ever adjacent.                  *)
(***************************************************************************)
Space == " "
Comma == ","
KeyHost == "host="
KeyPort == "portNumber="
KeyLocal == "localPortNumber="
Https == "https://"
\* a target port other than the default one
AltTargetPort == DefaultTargetPort + 1

\* the integers whose numerals occur
NumVals == PortRange \cup Pids \cup {DefaultTargetPort, AltTargetPort}
                     \cup {0, -1}
\* fmt's %d
Itoa(n) == ToString(n)
\* a numeral of n that fmt does not write: with a leading zero
Padded(n) == "0" \o Itoa(n)
\* the numerals that strconv.Atoi reads as n
Numerals(n) == {Itoa(n), Padded(n)}
\* strconv.Atoi
Atoi(str) ==
    IF Len(str) = 1 /\ \E n \in NumVals : str[1] \in Numerals(n)
    THEN [ok |-> TRUE, n |-> CHOOSE n \in NumVals : str[1] \in Numerals(n)]
    ELSE [ok |-> FALSE, n |-> 0]

\* strings.HasPrefix, for a prefix that is one token
HasPrefix(str, prefix) == Len(str) >= 1 /\ str[1] = prefix

\* strings.TrimPrefix
TrimPrefix(str, prefix) ==
    IF Len(str) >= 1 /\ str[1] = prefix THEN Tail(str) ELSE str

(***************************************************************************)
(* kubeconfig registry                                                     *)
(***************************************************************************)
\* the words of a server string that the code writes and tests as a whole
LocalhostPrefix == "https://localhost:"
InactiveMark == "# INACTIVE:"
\* the name no cluster has
NoName == 0

\* a cluster's server: no entry, https://localhost:<port>, or
\* "# INACTIVE: https://localhost:<port>"
Absent == <<>>
Localhost(p) == <<LocalhostPrefix, Itoa(p)>>
\* "# INACTIVE: " + server
MarkedInactive(server) == <<InactiveMark, Space>> \o server
Inactive(p) == MarkedInactive(Localhost(p))
Servers == {Absent} \cup {Localhost(p) : p \in PortRange}
                    \cup {Inactive(p) : p \in PortRange}
\* the servers of a kubeconfig that other tools or an editor also write:
\* the port with a leading zero, something that is no port, a remote
\* endpoint
OtherServers == {<<LocalhostPrefix, Padded(p)>> : p \in PortRange}
                  \cup {<<LocalhostPrefix, "a">>, <<Https, "eks">>}
AnyServers == Servers \cup OtherServers

\* MarkPortInactive that stops at the first cluster it marks
MarkPortInactive_FirstOnly(reg, p) ==
    LET hits == {n \in Names : reg[n] = Localhost(p)} IN
      [n \in Names |-> IF n \in hits /\ \A m \in hits : n <= m
                       THEN MarkedInactive(reg[n]) ELSE reg[n]]

\* every cluster whose server is https://localhost:<p> gets the server
\* "# INACTIVE: https://localhost:<p>"
MarkPortInactive(reg, p) ==
    [n \in Names |-> IF reg[n] = Localhost(p)
                     THEN MarkedInactive(reg[n]) ELSE reg[n]]

\* every cluster whose server starts with https://localhost: is marked
MarkAllLocalhostInactive(reg) ==
    [n \in Names |-> IF HasPrefix(reg[n], LocalhostPrefix)
                     THEN MarkedInactive(reg[n]) ELSE reg[n]]

\* the clusters that PortsInUse counts: not inactive, https://localhost:
\* followed by something Atoi reads
Counted(reg) ==
    {n \in Names : /\ ~HasPrefix(reg[n], InactiveMark)
                   /\ HasPrefix(reg[n], LocalhostPrefix)
                   /\ Atoi(TrimPrefix(reg[n], LocalhostPrefix)).ok}

\* localhost ports assigned to non-inactive clusters
PortsInUse(reg) ==
    {Atoi(TrimPrefix(reg[n], LocalhostPrefix)).n : n \in Counted(reg)}

\* the registry after kubectl config set-cluster commands that lead from
\* reg to new, those for the clusters of failing having failed
SetClusters(reg, new, failing) ==
    [n \in Names |-> IF n \in failing THEN reg[n] ELSE new[n]]

\* the name of the first cluster whose server is https://localhost:<p>
ContextForPort(reg, p) ==
    LET hits == {n \in Names : /\ ~HasPrefix(reg[n], InactiveMark)
                               /\ reg[n] = Localhost(p)} IN
      IF hits = {} THEN NoName
      ELSE CHOOSE n \in hits : \A m \in hits : n <= m

(***************************************************************************)
(* StartForward                                                            *)
(***************************************************************************)
NoOutcome == [kind |-> "none", port |-> NoPort, log |-> <<>>]
Success(p) == [kind |-> "success", port |-> p, log |-> <<>>]
Failure(k, l) == [kind |-> k, port |-> NoPort, log |-> l]

NoCmd == [host |-> "", portNumber |-> 0, localPortNumber |-> NoPort]

\* port, err := FindAvailablePort(reservedPorts)
SfAllocate ==
    /\ sfPc = "allocate"
    /\ LET r == FindAvailablePort(reservedPorts, listening) IN
         IF r.err # "nil"
         THEN /\ outcome' = Failure(r.err, <<>>)
              /\ sfPc' = "done"
              /\ port' = port
         ELSE /\ port' = r.port
              /\ sfPc' = "mark"
              /\ outcome' = outcome
    /\ UNCHANGED <<envVars, reservedPorts, markCalls, logFile, logOpen, child,
                   cmdline, exited, waited, attempt>>
    /\ UNCHANGED tableVars
    /\ UNCHANGED extraVars

\* StartForward without the markInactive call
SfMarkInactive_NotCalled ==
    /\ sfPc = "mark"
    /\ sfPc' = "createLog"
    /\ UNCHANGED <<envVars, reservedPorts, port, markCalls, logFile, logOpen,
                   child, cmdline, exited, waited, attempt, outcome>>
    /\ UNCHANGED tableVars
    /\ UNCHANGED extraVars

\* markInactive(port), the callback being kubeconfig.MarkPortInactive
SfMarkInactive ==
    /\ sfPc = "mark"
    /\ markCalls' = Append(markCalls, port)
    /\ registry' = MarkPortInactive(registry, port)
    /\ sfPc' = "createLog"
    /\ UNCHANGED <<listening, reservedPorts, port, logFile, logOpen, child,
                   cmdline, exited, waited, attempt, outcome>>
    /\ UNCHANGED tableVars
    /\ UNCHANGED extraVars

\* os.Create(logPath) and the context header line
SfCreateLog ==
    /\ sfPc = "createLog"
    /\ \/ /\ outcome' = Failure("LogCreateError", <<>>)
          /\ sfPc' = "done"
          /\ UNCHANGED <<logFile, logOpen>>
       \/ /\ logOpen' = TRUE
          /\ logFile' = <<"header">>
          /\ sfPc' = "start"
          /\ outcome' = outcome
    /\ UNCHANGED <<envVars, reservedPorts, port, markCalls, child, cmdline,
                   exited, waited, attempt>>
    /\ UNCHANGED tableVars
    /\ UNCHANGED extraVars

\* cmd.Start() that reports an error although the child runs
SfStart_ErrorAfterSpawn ==
    /\ sfPc = "start"
    /\ child' = "running"
    /\ cmdline' = [host |-> "h", portNumber |-> 443,
                   localPortNumber |-> port]
    /\ \/ /\ outcome' = Failure("LaunchError", <<>>)
          /\ sfPc' = "done"
          /\ UNCHANGED attempt
       \/ /\ attempt' = 1
          /\ sfPc' = "poll"
          /\ outcome' = outcome
    /\ UNCHANGED <<envVars, reservedPorts, port, markCalls, logFile, logOpen,
                   exited, waited>>
    /\ UNCHANGED tableVars
    /\ UNCHANGED extraVars

\* cmd.Start() and the goroutine that waits for the child
SfStart ==
    /\ sfPc = "start"
    /\ \/ /\ outcome' = Failure("LaunchError", <<>>)
          /\ sfPc' = "done"
          /\ UNCHANGED <<child, cmdline, attempt>>
       \/ /\ child' = "running"
          /\ cmdline' = [host |-> "h", portNumber |-> 443,
                         localPortNumber |-> port]
          /\ attempt' = 1
          /\ sfPc' = "poll"
          /\ outcome' = outcome
    /\ UNCHANGED <<envVars, reservedPorts, port, markCalls, logFile, logOpen,
                   exited, waited>>
    /\ UNCHANGED tableVars
    /\ UNCHANGED extraVars

\* the poll reporting success when the attempts are used up
SfPoll_SuccessOnExhaust ==
    /\ sfPc = "poll"
    /\ IF IsPortListening(port, listening)
       THEN /\ outcome' = Success(port)
            /\ sfPc' = "done"
            /\ UNCHANGED <<exited, attempt>>
       ELSE IF exited > 0
       THEN /\ exited' = exited - 1
            /\ outcome' = Failure("ProcessDied", logFile)
            /\ sfPc' = "done"
            /\ attempt' = attempt
       ELSE IF attempt >= maxAttempts
       THEN /\ outcome' = Success(port)
            /\ sfPc' = "done"
            /\ UNCHANGED <<exited, attempt>>
       ELSE /\ attempt' = attempt + 1
            /\ UNCHANGED <<exited, sfPc, outcome>>
    /\ UNCHANGED <<envVars, reservedPorts, port, markCalls, logFile, logOpen,
                   child, cmdline, waited>>
    /\ UNCHANGED tableVars
    /\ UNCHANGED extraVars

\* the poll with a loop that never gives up
SfPoll_NoDeadline ==
    /\ sfPc = "poll"
    /\ IF IsPortListening(port, listening)
       THEN /\ outcome' = Success(port)
            /\ sfPc' = "done"
            /\ UNCHANGED <<exited, attempt>>
       ELSE IF exited > 0
       THEN /\ exited' = exited - 1
            /\ outcome' = Failure("ProcessDied", logFile)
            /\ sfPc' = "done"
            /\ attempt' = attempt
       ELSE /\ attempt' = IF attempt >= maxAttempts THEN 1 ELSE attempt + 1
            /\ UNCHANGED <<exited, sfPc, outcome>>
    /\ UNCHANGED <<envVars, reservedPorts, port, markCalls, logFile, logOpen,
                   child, cmdline, waited>>
    /\ UNCHANGED tableVars
    /\ UNCHANGED extraVars

\* the poll giving up one attempt early
SfPoll_OneAttemptShort ==
    /\ sfPc = "poll"
    /\ IF IsPortListening(port, listening)
       THEN /\ outcome' = Success(port)
            /\ sfPc' = "done"
            /\ UNCHANGED <<exited, attempt>>
       ELSE IF exited > 0
       THEN /\ exited' = exited - 1
            /\ outcome' = Failure("ProcessDied", logFile)
            /\ sfPc' = "done"
            /\ attempt' = attempt
       ELSE IF attempt >= maxAttempts - 1
       THEN /\ outcome' = Failure("Timeout", logFile)
            /\ sfPc' = "done"
            /\ UNCHANGED <<exited, attempt>>
       ELSE /\ attempt' = attempt + 1
            /\ UNCHANGED <<exited, sfPc, outcome>>
    /\ UNCHANGED <<envVars, reservedPorts, port, markCalls, logFile, logOpen,
                   child, cmdline, waited>>
    /\ UNCHANGED tableVars
    /\ UNCHANGED extraVars

\* one iteration of the readiness poll, after its sleep; the timeout return
\* the poll starting the tunnel again when the process has died
SfPoll_RetriesOnDeath ==
    /\ sfPc = "poll"
    /\ IF IsPortListening(port, listening)
       THEN /\ outcome' = Success(port)
            /\ sfPc' = "done"
            /\ UNCHANGED <<exited, attempt>>
       ELSE IF exited > 0
       THEN /\ exited' = exited - 1
            /\ outcome' = outcome
            /\ sfPc' = "start"
            /\ attempt' = attempt
       ELSE IF attempt >= maxAttempts
       THEN /\ outcome' = Failure("Timeout", logFile)
            /\ sfPc' = "done"
            /\ UNCHANGED <<exited, attempt>>
       ELSE /\ attempt' = attempt + 1
            /\ UNCHANGED <<exited, sfPc, outcome>>
    /\ UNCHANGED <<envVars, reservedPorts, port, markCalls, logFile, logOpen,
                   child, cmdline, waited>>
    /\ UNCHANGED tableVars
    /\ UNCHANGED extraVars

\* the poll killing the process when it gives up
SfPoll_KillsOnTimeout ==
    /\ sfPc = "poll"
    /\ IF IsPortListening(port, listening)
       THEN /\ outcome' = Success(port)
            /\ sfPc' = "done"
            /\ UNCHANGED <<exited, attempt, child>>
       ELSE IF exited > 0
       THEN /\ exited' = exited - 1
            /\ outcome' = Failure("ProcessDied", logFile)
            /\ sfPc' = "done"
            /\ UNCHANGED <<attempt, child>>
       ELSE IF attempt >= maxAttempts
       THEN /\ outcome' = Failure("Timeout", logFile)
            /\ sfPc' = "done"
            /\ child' = IF child = "running" THEN "killed" ELSE child
            /\ UNCHANGED <<exited, attempt>>
       ELSE /\ attempt' = attempt + 1
            /\ UNCHANGED <<exited, sfPc, outcome, child>>
    /\ UNCHANGED <<envVars, reservedPorts, port, markCalls, logFile, logOpen,
                   cmdline, waited>>
    /\ UNCHANGED tableVars
    /\ UNCHANGED extraVars

\* follows the last iteration
SfPoll ==
    /\ sfPc = "poll"
    /\ IF IsPortListening(port, listening)
       THEN /\ outcome' = Success(port)
            /\ sfPc' = "done"
            /\ UNCHANGED <<exited, attempt>>
       ELSE IF exited > 0
       THEN /\ exited' = exited - 1
            /\ outcome' = Failure("ProcessDied", logFile)
            /\ sfPc' = "done"
            /\ attempt' = attempt
       ELSE IF attempt >= maxAttempts
       THEN /\ outcome' = Failure("Timeout", logFile)
            /\ sfPc' = "done"
            /\ UNCHANGED <<exited, attempt>>
       ELSE /\ attempt' = attempt + 1
            /\ UNCHANGED <<exited, sfPc, outcome>>
    /\ UNCHANGED <<envVars, reservedPorts, port, markCalls, logFile, logOpen,
                   child, cmdline, waited>>
    /\ UNCHANGED tableVars
    /\ UNCHANGED extraVars

\* the observer with an unbuffered channel: the send completes only while
\* the poll loop is there to receive
ExitObserver_Unbuffered ==
    /\ child = "exited"
    /\ ~waited
    /\ sfPc = "poll"
    /\ exited < 1
    /\ exited' = exited + 1
    /\ waited' = TRUE
    /\ UNCHANGED <<envVars, sfPc, reservedPorts, port, markCalls, logFile,
                   logOpen, child, cmdline, attempt, outcome>>
    /\ UNCHANGED tableVars
    /\ UNCHANGED extraVars

\* go func() { exited <- cmd.Wait() }(): posts once the child has terminated
ExitObserver ==
    /\ child = "exited"
    /\ ~waited
    /\ exited < 1
    /\ exited' = exited + 1
    /\ waited' = TRUE
    /\ UNCHANGED <<envVars, sfPc, reservedPorts, port, markCalls, logFile,
                   logOpen, child, cmdline, attempt, outcome>>
    /\ UNCHANGED tableVars
    /\ UNCHANGED extraVars

(***************************************************************************)
(* Environment                                                             *)
(***************************************************************************)
\* some process starts to accept connections on port p
PortOpens(p) ==
    /\ p \notin listening
    /\ listening' = listening \cup {p}
    /\ UNCHANGED <<registry, sfVars>>
    /\ UNCHANGED tableVars
    /\ UNCHANGED extraVars

\* the listener of port p goes away
PortCloses(p) ==
    /\ p \in listening
    /\ listening' = listening \ {p}
    /\ UNCHANGED <<registry, sfVars>>
    /\ UNCHANGED tableVars
    /\ UNCHANGED extraVars

\* the launched process terminates
ChildExits ==
    /\ child = "running"
    /\ child' = "exited"
    /\ UNCHANGED <<envVars, sfPc, reservedPorts, port, markCalls, logFile,
                   logOpen, cmdline, exited, waited, attempt, outcome>>
    /\ UNCHANGED tableVars
    /\ UNCHANGED extraVars

\* the launched process prints a line; the writer stamps it into the log
ChildWrites ==
    /\ child = "running"
    /\ Len(logFile) < 1 + MaxLogLines
    /\ logFile' = Append(logFile, "ssm")
    /\ UNCHANGED <<envVars, sfPc, reservedPorts, port, markCalls, logOpen,
                   child, cmdline, exited, waited, attempt, outcome>>
    /\ UNCHANGED tableVars
    /\ UNCHANGED extraVars

(***************************************************************************)
(* Process table and ListForwards                                          *)
(***************************************************************************)
\* a line of `ps -eo pid,args`: no process with that pid, a process that is
\* not a port-forwarding session (or whose line does not parse), or
\* "aws ssm start-session ... --parameters host=h,portNumber=443,
\* localPortNumber=p"
NoProc == [kind |-> "none", host |-> 0, lport |-> NoPort]
OtherProc == [kind |-> "other", host |-> 0, lport |-> NoPort]
Tunnel(h, p) == [kind |-> "tunnel", host |-> h, lport |-> p]
ProcLines == {NoProc, OtherProc} \cup {Tunnel(h, p) : h \in Hosts, p \in PortRange}

EmptyTable == [pid \in Pids |-> NoProc]

\* the Forward that parseLine makes of a matching line
Forward(pid, line) ==
    [PID |-> pid, LocalPort |-> line.lport, TargetHost |-> line.host,
     TargetPort |-> DefaultTargetPort]

\* the scan before its first line
NoScan == [forwards |-> <<>>, seenPorts |-> {}]

\* the scan keeping a line without probing its port
ScanLine_NoProbe(acc, pid, line, L) ==
    IF line.kind # "tunnel" THEN acc
    ELSE IF line.lport \in acc.seenPorts THEN acc
    ELSE [forwards |-> Append(acc.forwards, Forward(pid, line)),
          seenPorts |-> acc.seenPorts \cup {line.lport}]

\* the body of the loop of ListForwards for one line, L being the ports that
\* accept connections when the line is examined
ScanLine(acc, pid, line, L) ==
    IF line.kind # "tunnel" THEN acc
    ELSE IF line.lport \in acc.seenPorts THEN acc
    ELSE IF ~IsPortListening(line.lport, L) THEN acc
    ELSE [forwards |-> Append(acc.forwards, Forward(pid, line)),
          seenPorts |-> acc.seenPorts \cup {line.lport}]

\* the loop of ListForwards from line i on, ps printing the processes in
\* the order of their pid
RECURSIVE ScanFrom(_, _, _, _)
ScanFrom(i, table, L, acc) ==
    IF i > MaxProcs THEN acc
    ELSE ScanFrom(i + 1, table, L, ScanLine(acc, i, table[i], L))

\* ListForwards when no port changes its state while the scan runs
ListForwards(table, L) == ScanFrom(1, table, L, NoScan).forwards

NoProbes == [pid \in Pids |-> "none"]

\* exec.Command("ps", "-eo", "pid,args").Output() succeeds
ScanBegin ==
    /\ scanIdx = 0
    /\ psOut' = procs
    /\ scanIdx' = 1
    /\ seenPorts' = {}
    /\ forwards' = <<>>
    /\ probeAt' = NoProbes
    /\ UNCHANGED <<envVars, sfVars, procs, lcVars>>
    /\ UNCHANGED extraVars

\* one iteration of the loop of ListForwards
ScanStep ==
    /\ scanIdx \in Pids
    /\ LET line == psOut[scanIdx]
           acc == ScanLine([forwards |-> forwards, seenPorts |-> seenPorts],
                           scanIdx, line, listening)
       IN /\ forwards' = acc.forwards
          /\ seenPorts' = acc.seenPorts
          /\ probeAt' = [probeAt EXCEPT ![scanIdx] =
                           IF line.kind # "tunnel" THEN "none"
                           ELSE IF line.lport \in listening THEN "open"
                           ELSE "closed"]
    /\ scanIdx' = scanIdx + 1
    /\ UNCHANGED <<envVars, sfVars, procs, psOut, lcVars>>
    /\ UNCHANGED extraVars

\* a port changes its state while the scan runs
ScanPortOpens(p) ==
    /\ p \notin listening
    /\ listening' = listening \cup {p}
    /\ UNCHANGED <<registry, sfVars, tableVars>>
    /\ UNCHANGED extraVars

ScanPortCloses(p) ==
    /\ p \in listening
    /\ listening' = listening \ {p}
    /\ UNCHANGED <<registry, sfVars, tableVars>>
    /\ UNCHANGED extraVars

(***************************************************************************)
(* killProcess, StopAll and PruneDuplicates                                *)
(***************************************************************************)
NoResult == [count |-> 0, err |-> "none"]

\* hosts that are keys of byTarget
TargetHosts(fs) == {fs[i].TargetHost : i \in 1..Len(fs)}
\* byTarget[h]
ByTarget(fs, h) == SelectSeq(fs, LAMBDA f : f.TargetHost = h)

\* the forwards PruneDuplicates kills for a host, were it to keep the last
PruneVictims_KeepsLast(fs, h) ==
    LET items == ByTarget(fs, h) IN
      IF Len(items) <= 1 THEN <<>> ELSE SubSeq(items, 1, Len(items) - 1)

\* items[1:] of a host with more than one forward
PruneVictims(fs, h) ==
    LET items == ByTarget(fs, h) IN
      IF Len(items) <= 1 THEN <<>> ELSE Tail(items)

\* StopAll that runs its loop although ListForwards failed
StopAllBegin_IgnoresScanError ==
    /\ lcPc \in {"idle", "done"}
    /\ lcOp' = "StopAll"
    /\ count' = 0
    /\ signals' = {}
    /\ kills' = <<>>
    /\ sent' = <<>>
    /\ hostsLeft' = {}
    /\ forwards' = ListForwards(procs, listening)
    /\ victims' = forwards'
    /\ lcPc' = "loop"
    /\ \/ result' = [count |-> 0, err |-> "ps"]
       \/ result' = NoResult
    /\ UNCHANGED <<envVars, sfVars, procs, scanVars>>
    /\ UNCHANGED extraVars

\* StopAll: ListForwards, then the loop over all forwards
StopAllBegin ==
    /\ lcPc \in {"idle", "done"}
    /\ lcOp' = "StopAll"
    /\ count' = 0
    /\ signals' = {}
    /\ kills' = <<>>
    /\ sent' = <<>>
    /\ hostsLeft' = {}
    /\ \/ /\ forwards' = <<>>
          /\ victims' = <<>>
          /\ result' = [count |-> 0, err |-> "ps"]
          /\ lcPc' = "done"
       \/ /\ forwards' = ListForwards(procs, listening)
          /\ victims' = forwards'
          /\ result' = NoResult
          /\ lcPc' = "loop"
    /\ UNCHANGED <<envVars, sfVars, procs, scanVars>>
    /\ UNCHANGED extraVars

\* PruneDuplicates: ListForwards, then the grouping by target host
PruneBegin ==
    /\ lcPc \in {"idle", "done"}
    /\ lcOp' = "PruneDuplicates"
    /\ count' = 0
    /\ signals' = {}
    /\ kills' = <<>>
    /\ sent' = <<>>
    /\ victims' = <<>>
    /\ \/ /\ forwards' = <<>>
          /\ hostsLeft' = {}
          /\ result' = [count |-> 0, err |-> "ps"]
          /\ lcPc' = "done"
       \/ /\ forwards' = ListForwards(procs, listening)
          /\ hostsLeft' = TargetHosts(forwards')
          /\ result' = NoResult
          /\ lcPc' = "loop"
    /\ UNCHANGED <<envVars, sfVars, procs, scanVars>>
    /\ UNCHANGED extraVars

\* PruneDuplicates: the next key of the range over byTarget, in any order
PruneNextHost ==
    /\ lcPc = "loop"
    /\ victims = <<>>
    /\ \E h \in hostsLeft :
         /\ hostsLeft' = hostsLeft \ {h}
         /\ victims' = PruneVictims(forwards, h)
    /\ UNCHANGED <<envVars, sfVars, procs, scanVars, forwards, lcOp, lcPc,
                   count, signals, kills, sent, result>>
    /\ UNCHANGED extraVars

\* what a Signal call does: the signal sig goes to whatever process holds
\* the pid at that moment, to nobody when no process holds it
SignalCall(pid, sig) == [pid |-> pid, sig |-> sig, to |-> procs[pid].kind]

\* killProcess that goes on to its sleep whether or not SIGTERM was
\* delivered
KillTerm_ForcesAnyway ==
    /\ lcPc = "loop"
    /\ victims # <<>>
    /\ LET pid == Head(victims).PID IN
         /\ sent' = Append(sent, SignalCall(pid, "TERM"))
         /\ IF procs[pid].kind = "none"
            THEN UNCHANGED signals
            ELSE signals' = signals \cup {<<pid, "TERM">>}
    /\ lcPc' = "grace"
    /\ UNCHANGED <<victims, kills>>
    /\ UNCHANGED <<envVars, sfVars, procs, scanVars, forwards, lcOp,
                   hostsLeft, count, result>>
    /\ UNCHANGED extraVars

\* killProcess up to its sleep: FindProcess and SIGTERM, which is not
\* delivered when the process is gone
KillTerm ==
    /\ lcPc = "loop"
    /\ victims # <<>>
    /\ LET pid == Head(victims).PID IN
         /\ sent' = Append(sent, SignalCall(pid, "TERM"))
         /\ IF procs[pid].kind = "none"
            THEN /\ victims' = Tail(victims)
                 /\ kills' = Append(kills, [pid |-> pid, ok |-> FALSE])
                 /\ UNCHANGED <<lcPc, signals>>
            ELSE /\ signals' = signals \cup {<<pid, "TERM">>}
                 /\ lcPc' = "grace"
                 /\ UNCHANGED <<victims, kills>>
    /\ UNCHANGED <<envVars, sfVars, procs, scanVars, forwards, lcOp,
                   hostsLeft, count, result>>
    /\ UNCHANGED extraVars

\* killProcess after its sleep, the caller forgetting its count++
KillForce_NoCount ==
    /\ lcPc = "grace"
    /\ LET pid == Head(victims).PID IN
         /\ sent' = Append(sent, SignalCall(pid, "KILL"))
         /\ IF procs[pid].kind = "none"
            THEN UNCHANGED <<procs, signals>>
            ELSE /\ procs' = [procs EXCEPT ![pid] = NoProc]
                 /\ signals' = signals \cup {<<pid, "KILL">>}
    /\ kills' = Append(kills, [pid |-> Head(victims).PID, ok |-> TRUE])
    /\ victims' = Tail(victims)
    /\ lcPc' = "loop"
    /\ UNCHANGED <<envVars, sfVars, scanVars, forwards, lcOp, hostsLeft,
                   count, result>>
    /\ UNCHANGED extraVars

\* killProcess after its sleep: SIGKILL, whatever became of the process,
\* and the caller's count++
KillForce ==
    /\ lcPc = "grace"
    /\ LET pid == Head(victims).PID IN
         /\ sent' = Append(sent, SignalCall(pid, "KILL"))
         /\ IF procs[pid].kind = "none"
            THEN UNCHANGED <<procs, signals>>
            ELSE /\ procs' = [procs EXCEPT ![pid] = NoProc]
                 /\ signals' = signals \cup {<<pid, "KILL">>}
    /\ kills' = Append(kills, [pid |-> Head(victims).PID, ok |-> TRUE])
    /\ count' = count + 1
    /\ victims' = Tail(victims)
    /\ lcPc' = "loop"
    /\ UNCHANGED <<envVars, sfVars, scanVars, forwards, lcOp, hostsLeft,
                   result>>
    /\ UNCHANGED extraVars

\* return count / return total
LcReturn ==
    /\ lcPc = "loop"
    /\ victims = <<>>
    /\ hostsLeft = {}
    /\ result' = [count |-> count, err |-> "none"]
    /\ lcPc' = "done"
    /\ UNCHANGED <<envVars, sfVars, procs, scanVars, forwards, lcOp,
                   hostsLeft, victims, count, signals, kills, sent>>
    /\ UNCHANGED extraVars

\* a process of the table terminates by itself
ProcExits(pid) ==
    /\ procs[pid].kind # "none"
    /\ procs' = [procs EXCEPT ![pid] = NoProc]
    /\ UNCHANGED <<envVars, sfVars, scanVars, forwards, lcVars>>
    /\ UNCHANGED extraVars

\* the operating system gives the pid that killProcess is about to signal,
\* whose process is gone, to a new process, which is not a tunnel of this
\* program (a pid given away before the scan is a process table the
\* operation can start from, and no operation looks at the other pids)
PidReused(pid) ==
    /\ lcPc \in {"loop", "grace"}
    /\ victims # <<>>
    /\ pid = Head(victims).PID
    /\ procs[pid].kind = "none"
    /\ procs' = [procs EXCEPT ![pid] = OtherProc]
    /\ UNCHANGED <<envVars, sfVars, scanVars, forwards, lcVars>>
    /\ UNCHANGED extraVars

\* displayForwards: ListForwards, then a warning when the scan failed, a
\* notice when there is no forward, one line per forward otherwise
\* (forwards is what it prints)
DisplayForwards ==
    /\ lcPc \in {"idle", "done"}
    /\ lcOp' = "displayForwards"
    /\ count' = 0
    /\ signals' = {}
    /\ kills' = <<>>
    /\ sent' = <<>>
    /\ hostsLeft' = {}
    /\ victims' = <<>>
    /\ lcPc' = "done"
    /\ \/ /\ forwards' = <<>>
          /\ result' = [count |-> 0, err |-> "ps"]
       \/ /\ forwards' = ListForwards(procs, listening)
          /\ result' = NoResult
    /\ UNCHANGED <<envVars, sfVars, procs, scanVars>>
    /\ UNCHANGED extraVars

(***************************************************************************)
(* The command line of a tunnel and parseLine                              *)
(***************************************************************************)
\* strings.Fields: the maximal runs of tokens other than space
RECURSIVE FieldsFrom(_, _, _)
FieldsFrom(str, cur, acc) ==
    IF str = <<>> THEN (IF cur = <<>> THEN acc ELSE Append(acc, cur))
    ELSE IF Head(str) = Space
    THEN FieldsFrom(Tail(str), <<>>,
                    IF cur = <<>> THEN acc ELSE Append(acc, cur))
    ELSE FieldsFrom(Tail(str), Append(cur, Head(str)), acc)
Fields(str) == FieldsFrom(str, <<>>, <<>>)

\* strings.Join
RECURSIVE Join(_, _)
Join(strs, sep) ==
    IF strs = <<>> THEN <<>>
    ELSE IF Len(strs) = 1 THEN strs[1]
    ELSE strs[1] \o <<sep>> \o Join(Tail(strs), sep)

\* strings.Index for a key: the first position of key in str, 0 for none
Index(str, key) ==
    IF \E i \in 1..Len(str) : str[i] = key
    THEN CHOOSE i \in 1..Len(str) :
           /\ str[i] = key
           /\ \A j \in 1..(i - 1) : str[j] # key
    ELSE 0

\* extractParam that ends a value at a space only
extractParam_ToSpace(str, key) ==
    LET idx == Index(str, key) IN
      IF idx = 0 THEN <<>>
      ELSE LET start == idx + 1
               stops == {i \in start..Len(str) : str[i] = Space}
               end == IF stops = {} THEN Len(str) + 1
                      ELSE CHOOSE i \in stops : \A j \in stops : i <= j
           IN SubSeq(str, start, end - 1)

\* extractParam: the value after the first key, up to the next comma or
\* space or to the end
extractParam(str, key) ==
    LET idx == Index(str, key) IN
      IF idx = 0 THEN <<>>
      ELSE LET start == idx + 1
               stops == {i \in start..Len(str) : str[i] \in {Comma, Space}}
               end == IF stops = {} THEN Len(str) + 1
                      ELSE CHOOSE i \in stops : \A j \in stops : i <= j
           IN SubSeq(str, start, end - 1)

\* Forward{}, false
NoForward ==
    [ok |-> FALSE, PID |-> 0, LocalPort |-> 0, TargetHost |-> <<>>,
     TargetPort |-> 0]

\* parseLine with a zero target port where the line gives none
parseLine_NoDefault(line) ==
    LET fields == Fields(line) IN
      IF Len(fields) < 2 THEN NoForward
      ELSE LET pid == Atoi(fields[1])
               rest == Join(Tail(fields), Space)
               host == extractParam(rest, KeyHost)
               portStr == extractParam(rest, KeyPort)
               localStr == extractParam(rest, KeyLocal)
               localPort == Atoi(localStr)
               p == Atoi(portStr)
           IN IF ~pid.ok THEN NoForward
              ELSE IF host = <<>> \/ localStr = <<>> THEN NoForward
              ELSE IF ~localPort.ok THEN NoForward
              ELSE [ok |-> TRUE, PID |-> pid.n, LocalPort |-> localPort.n,
                    TargetHost |-> host, TargetPort |-> p.n]

\* parseLine
parseLine(line) ==
    LET fields == Fields(line) IN
      IF Len(fields) < 2 THEN NoForward
      ELSE LET pid == Atoi(fields[1])
               rest == Join(Tail(fields), Space)
               host == extractParam(rest, KeyHost)
               portStr == extractParam(rest, KeyPort)
               localStr == extractParam(rest, KeyLocal)
               localPort == Atoi(localStr)
               p == Atoi(portStr)
           IN IF ~pid.ok THEN NoForward
              ELSE IF host = <<>> \/ localStr = <<>> THEN NoForward
              ELSE IF ~localPort.ok THEN NoForward
              ELSE [ok |-> TRUE, PID |-> pid.n, LocalPort |-> localPort.n,
                    TargetHost |-> host,
                    TargetPort |-> IF portStr # <<>> /\ p.ok THEN p.n
                                   ELSE DefaultTargetPort]

\* params of StartForward
Params(host, localPort) ==
    <<KeyHost>> \o host \o
    <<Comma, KeyPort, Itoa(DefaultTargetPort), Comma, KeyLocal,
      Itoa(localPort)>>

\* args of StartForward, the bastion, the profile and the region being fixed
StartArgs(targetHost, localPort) ==
    << <<"ssm">>, <<"start-session">>,
       <<"--target">>, <<"i-0">>,
       <<"--document-name">>, <<"AWS-StartPortForwardingSessionToRemoteHost">>,
       <<"--parameters">>, Params(TrimPrefix(targetHost, Https), localPort),
       <<"--profile">>, <<"dev">>,
       <<"--region">>, <<"eu">> >>

\* the line of ps -eo pid,args for a process: the pid, right-aligned, and
\* the arguments separated by spaces
PsLine(pidField, argv) == <<Space, pidField, Space>> \o Join(argv, Space)

\* the strings a target host is drawn from
HostTokens == {"a", Comma, Space, Https, KeyHost, KeyPort, KeyLocal}
HostStrings == UNION {[1..n -> HostTokens] : n \in 0..MaxHostLen}

\* the parameters a line of another origin is made of: a key or an option,
\* its value, and the separator that follows
ParamKeys == {KeyHost, KeyPort, KeyLocal, "--opt"}
ParamValues == {<<>>, <<"a">>, <<Itoa(AltTargetPort)>>}
ParamSet == [key : ParamKeys, val : ParamValues, sep : {Comma, Space}]
ParamLists == UNION {[1..n -> ParamSet] : n \in 0..MaxParams}
RECURSIVE RenderParams(_)
RenderParams(ps) ==
    IF ps = <<>> THEN <<>>
    ELSE <<Head(ps).key>> \o Head(ps).val \o <<Head(ps).sep>> \o
         RenderParams(Tail(ps))

\* the first fields of such a line: a pid, zero, a negative number, a word
PidFields == {Itoa(1), Itoa(0), Itoa(-1), "a"}

NoLaunch == [pid |-> 0, targetHost |-> <<>>, port |-> NoPort]
NoForeign == [pidField |-> "", params |-> <<>>]
NotParsed == [done |-> FALSE, fwd |-> NoForward]

\* StartForward(targetHost, ...) has launched a tunnel on port localPort and
\* ps prints the line of the process, which got the pid pid
LaunchedLine(pid, targetHost, localPort) ==
    /\ launch = [pid |-> pid, targetHost |-> targetHost, port |-> localPort]
    /\ foreign = NoForeign
    /\ psLine = PsLine(Itoa(pid), << <<"aws">> >> \o
                                  StartArgs(targetHost, localPort))

\* ps prints the line of a process that no StartForward call launched
ForeignLine(pidField, ps) ==
    /\ launch = NoLaunch
    /\ foreign = [pidField |-> pidField, params |-> ps]
    /\ psLine = PsLine(pidField, << <<"aws">>, RenderParams(ps) >>)

\* f, ok := parseLine(line)
ParseLine ==
    /\ psLine # <<>>
    /\ ~parsed.done
    /\ parsed' = [done |-> TRUE, fwd |-> parseLine(psLine)]
    /\ UNCHANGED <<launch, foreign, psLine>>
    /\ UNCHANGED <<envVars, sfVars, tableVars, cleanVars, launcherVars,
                   peerVars, moreVars>>

(***************************************************************************)
(* The log directory and CleanOldLogs                                      *)
(***************************************************************************)
\* the age, in hours, from which on CleanOldLogs removes a file
RetentionHours == 24
\* the clock at the start, late enough for a file to be older than that
StartTime == RetentionHours + 1
\* modification times: at the start a file is one hour younger than the
\* retention, as old, or one hour older
ModTimes == (StartTime - RetentionHours - 1)..(StartTime - RetentionHours + 1)
Files == 1..MaxFiles
NoEntry == [kind |-> "absent", modTime |-> 0]
Entries == {NoEntry} \cup [kind : {"file", "dir"}, modTime : ModTimes]

\* the loop of CleanOldLogs that removes the files modified at the cutoff too
RemoveOld_AtCutoff(dir, cutoff) ==
    [f \in Files |->
        IF dir[f].kind = "file" /\ dir[f].modTime <= cutoff
        THEN NoEntry ELSE dir[f]]

\* the loop of CleanOldLogs: directories are skipped, a file is removed
\* when info.ModTime().Before(cutoff)
RemoveOld(dir, cutoff) ==
    [f \in Files |->
        IF dir[f].kind = "file" /\ dir[f].modTime < cutoff
        THEN NoEntry ELSE dir[f]]

\* CleanOldLogs
CleanOldLogs ==
    /\ Len(cleanLog) < MaxCleans
    /\ logDir' = IF dirReadable
                 THEN RemoveOld(logDir, now - RetentionHours)
                 ELSE logDir
    /\ cleanLog' = Append(cleanLog, {f \in Files : logDir'[f] # logDir[f]})
    /\ cleanedAt' = now
    /\ changedSince' = FALSE
    /\ UNCHANGED <<now, dirReadable, logOwner>>
    /\ UNCHANGED <<envVars, sfVars, tableVars, parseVars, moreVars, launcherVars,
                   peerVars>>

\* an hour passes
Tick ==
    /\ now < StartTime + MaxTicks
    /\ now' = now + 1
    /\ UNCHANGED <<logDir, dirReadable, cleanedAt, changedSince, cleanLog,
                   logOwner>>
    /\ UNCHANGED <<envVars, sfVars, tableVars, parseVars, moreVars, launcherVars,
                   peerVars>>

\* a log file is created for a new tunnel, or written to for its tunnel
LogWritten(f) ==
    /\ logDir[f].kind # "dir"
    /\ logDir[f].kind = "file" => logOwner[f] # "gone"
    /\ logDir' = [logDir EXCEPT ![f] = [kind |-> "file", modTime |-> now]]
    /\ logOwner' = IF logDir[f].kind = "file" THEN logOwner
                   ELSE [logOwner EXCEPT ![f] = "alive"]
    /\ changedSince' = TRUE
    /\ UNCHANGED <<now, dirReadable, cleanedAt, cleanLog>>
    /\ UNCHANGED <<envVars, sfVars, tableVars, parseVars, moreVars, launcherVars,
                   peerVars>>

\* the tunnel of a log file terminates
OwnerExits(f) ==
    /\ logOwner[f] = "alive"
    /\ logOwner' = [logOwner EXCEPT ![f] = "gone"]
    /\ UNCHANGED <<logDir, now, dirReadable, cleanedAt, changedSince,
                   cleanLog>>
    /\ UNCHANGED <<envVars, sfVars, tableVars, parseVars, moreVars, launcherVars,
                   peerVars>>

(***************************************************************************)
(* The launching process and its end                                       *)
(***************************************************************************)
\* the process group of the child: its own, by Setpgid
ChildPgid == "own"
\* the process group of the launcher, to which the terminal sends its
\* signals
LauncherPgid == "launcher"

\* SIGINT or SIGTERM for the process group of the launcher: the handler of
\* main calls os.Exit(0)
LauncherInterrupted ==
    /\ launcher = "running"
    /\ launcher' = "interrupted"
    /\ child' = IF child = "running" /\ ChildPgid = LauncherPgid
                THEN "killed" ELSE child
    /\ UNCHANGED <<envVars, sfPc, reservedPorts, port, markCalls, logFile,
                   logOpen, cmdline, exited, waited, attempt, outcome>>
    /\ UNCHANGED <<tableVars, parseVars, moreVars, cleanVars, peerVars>>

\* main returns after connectSSM
LauncherExits ==
    /\ launcher = "running"
    /\ sfPc = "done"
    /\ launcher' = "returned"
    /\ UNCHANGED <<envVars, sfVars, tableVars, parseVars, moreVars, cleanVars, peerVars>>

\* the child prints a line when the launcher is gone: its stdout and stderr
\* are pipes whose read ends the launcher held for tsWriter, so the write
\* raises SIGPIPE, which ends the child unless it ignores the signal, and
\* nothing reaches the log
OrphanWrites ==
    /\ launcher # "running"
    /\ child = "running"
    /\ \/ child' = "killed"
       \/ child' = child
    /\ UNCHANGED <<envVars, sfPc, reservedPorts, port, markCalls, logFile,
                   logOpen, cmdline, exited, waited, attempt, outcome>>
    /\ UNCHANGED <<tableVars, parseVars, moreVars, cleanVars, launcherVars, peerVars>>

(***************************************************************************)
(* A second instance of the program that calls StartForward                *)
(***************************************************************************)
\* connectSSM evaluates kubeconfig.PortsInUse() for the call
PeerSnapshot ==
    /\ peerPc = "snapshot"
    /\ peerReserved' = PortsInUse(registry)
    /\ peerPc' = "allocate"
    /\ UNCHANGED peerPort
    /\ UNCHANGED <<envVars, sfVars, tableVars, parseVars, moreVars, cleanVars,
                   launcherVars>>

\* an allocation that leaves out the port the other call holds
PeerAllocate_SkipsHeld ==
    /\ peerPc = "allocate"
    /\ LET r == FindAvailablePort(peerReserved \cup {port}, listening) IN
         /\ peerPort' = r.port
         /\ peerPc' = IF r.err # "nil" THEN "done" ELSE "mark"
    /\ UNCHANGED peerReserved
    /\ UNCHANGED <<envVars, sfVars, tableVars, parseVars, moreVars, cleanVars,
                   launcherVars>>

\* port, err := FindAvailablePort(reservedPorts)
PeerAllocate ==
    /\ peerPc = "allocate"
    /\ LET r == FindAvailablePort(peerReserved, listening) IN
         /\ peerPort' = r.port
         /\ peerPc' = IF r.err # "nil" THEN "done" ELSE "mark"
    /\ UNCHANGED peerReserved
    /\ UNCHANGED <<envVars, sfVars, tableVars, parseVars, moreVars, cleanVars,
                   launcherVars>>

\* markInactive(port)
PeerMarkInactive ==
    /\ peerPc = "mark"
    /\ registry' = MarkPortInactive(registry, peerPort)
    /\ peerPc' = "launch"
    /\ UNCHANGED <<peerReserved, peerPort>>
    /\ UNCHANGED <<listening, sfVars, tableVars, parseVars, moreVars, cleanVars,
                   launcherVars>>

\* os.Create and cmd.Start: the call enters its poll, or returns an error
PeerLaunch ==
    /\ peerPc = "launch"
    /\ \/ peerPc' = "poll"
       \/ peerPc' = "done"
    /\ UNCHANGED <<peerReserved, peerPort>>
    /\ UNCHANGED <<envVars, sfVars, tableVars, parseVars, moreVars, cleanVars,
                   launcherVars>>

(***************************************************************************)
(* The timestampWriter of a session log                                    *)
(*                                                                         *)
(* The child's output is a sequence of bytes; os/exec copies it to the     *)
(* writer in chunks of any size, one Write call after the other (Stdout    *)
(* and Stderr are the same writer, so one goroutine does the copying).     *)
(***************************************************************************)
\* the newline byte and the other bytes of the output
Newline == "\n"
Letters == {"a", "b"}
Bytes == Letters \cup {Newline}
\* the tag of the log line format "[%s] [ssm] %s\n"
LineOpen == "["
LineTag == "] [ssm] "

\* the byte sequences of at most n bytes
RECURSIVE BytesUpTo(_)
BytesUpTo(n) ==
    IF n = 0 THEN {<<>>}
    ELSE LET shorter == BytesUpTo(n - 1) IN
           shorter \cup {Append(b, c) : b \in shorter, c \in Bytes}

\* time.Now().Format("2006-01-02 15:04:05") at the clock value t
TimeStamp(t) == Itoa(t)

\* fmt.Fprintf(tw.w, "[%s] [ssm] %s\n", ts, line)
Fprintf(w, ts, line) == w \o <<LineOpen, ts, LineTag>> \o line \o <<Newline>>

\* bytes.IndexByte: the first position of c in b, 0 for none
IndexByte(b, c) == Index(b, c)

NoWrite == [len |-> 0, n |-> 0]

\* the loop of Write over tw.buf: every complete line leaves the buffer and
\* the non-empty ones are written to tw.w
RECURSIVE Drain(_, _, _)
Drain(buf, w, ts) ==
    LET idx == IndexByte(buf, Newline) IN
      IF idx = 0 THEN [buf |-> buf, w |-> w]
      ELSE LET line == SubSeq(buf, 1, idx - 1)
               rest == SubSeq(buf, idx + 1, Len(buf))
           IN IF Len(line) = 0
              THEN Drain(rest, w, ts)
              ELSE Drain(rest, Fprintf(w, ts, line), ts)

\* Write that looks for lines in p alone
Write_ForgetsBuffer(buf, w, ts, p) ==
    LET d == Drain(p, w, ts) IN
      [buf |-> d.buf, w |-> d.w, n |-> Len(p)]

\* (tw *timestampWriter) Write(p)
Write(buf, w, ts, p) ==
    LET d == Drain(buf \o p, w, ts) IN
      [buf |-> d.buf, w |-> d.w, n |-> Len(p)]

\* the copying goroutine passes the next k bytes of the output to Write
WriteChunk(k) ==
    /\ k \in 1..Len(twPending)
    /\ LET p == SubSeq(twPending, 1, k)
           r == Write(twBuf, twOut, TimeStamp(twCalls + 1), p)
       IN /\ twBuf' = r.buf
          /\ twOut' = r.w
          /\ twRet' = [len |-> Len(p), n |-> r.n]
          /\ twWritten' = twWritten \o p
          /\ twPending' = SubSeq(twPending, k + 1, Len(twPending))
    /\ twCalls' = twCalls + 1
    /\ UNCHANGED <<envVars, sfVars, tableVars, parseVars, cleanVars,
                   launcherVars, peerVars, regVars, mainVars>>

(***************************************************************************)
(* main: runs of the program, one after the other                          *)
(*                                                                         *)
(* A run prunes duplicates, loops over the selector and the kill-all       *)
(* action, connects to the selected cluster and ends.  StartForward is     *)
(* taken in two steps here, up to the launch and the poll; the free ports  *)
(* and the processes change between the steps.  kubectl, ps, the AWS       *)
(* commands, the filesystem and the spawner may fail.                      *)
(***************************************************************************)
\* KUBECTL_SSM_HEADLESS_SELECTION: unset, kill_all, the name of a cluster,
\* a name that matches no cluster
Interactive == [mode |-> "off", name |-> NoName]
HeadlessKillAll == [mode |-> "kill_all", name |-> NoName]
HeadlessCluster(n) == [mode |-> "cluster", name |-> n]
HeadlessNoMatch == [mode |-> "nomatch", name |-> NoName]
Selections == {Interactive, HeadlessKillAll, HeadlessNoMatch}
                \cup {HeadlessCluster(n) : n \in Names}

\* the endpoint of a cluster that SetClusterDirect writes
Endpoint == <<Https, "eks">>
\* the target host of the tunnel to cluster n
HostOf(n) == n

NoRun == [end |-> "none", path |-> "none", scan |-> "none"]
\* the run has ended: how, which way connectSSM or connectDirect went, and
\* whether the scan of the fast path succeeded
Ended(how, path, scan) == [end |-> how, path |-> path, scan |-> scan]
\* connectSSM has passed the fast path
Passed(scan) == [end |-> "none", path |-> "new", scan |-> scan]
ScanState(scanOk) == IF scanOk THEN "ok" ELSE "failed"

\* the pids of a sequence of forwards
PidsOf(fs) == {fs[i].PID : i \in 1..Len(fs)}
\* the table without the processes of pids
Without(table, pids) ==
    [pid \in Pids |-> IF pid \in pids THEN NoProc ELSE table[pid]]
\* the processes PruneDuplicates kills
PrunedPids(fs) ==
    UNION {PidsOf(PruneVictims(fs, h)) : h \in TargetHosts(fs)}
\* the pids no process has
FreePids(table) == {pid \in Pids : table[pid] = NoProc}
\* the pid of the next process (the lowest free one stands for any)
NextPid(table) == CHOOSE pid \in FreePids(table) :
                    \A q \in FreePids(table) : pid <= q

mainFrame == <<sfVars, psOut, scanIdx, seenPorts, forwards, probeAt, lcVars,
               parseVars, cleanVars, launcherVars, peerVars, writerVars,
               regVars>>

\* the process ends (return from main or os.Exit): its variables are gone
MainEnds(res) ==
    /\ mainPc' = "off"
    /\ mainRes' = res
    /\ headless' = Interactive
    /\ selected' = NoName
    /\ mainPort' = NoPort
    /\ killAlls' = 0

\* the program is started: main up to the loop, with PruneDuplicates
MainStart(h, scanOk) ==
    /\ mainPc = "off"
    /\ runs < MaxRuns
    /\ runs' = runs + 1
    /\ headless' = h
    /\ mainPc' = "select"
    /\ mainRes' = NoRun
    /\ procs' = IF scanOk
                THEN Without(procs, PrunedPids(ListForwards(procs, listening)))
                ELSE procs
    /\ UNCHANGED <<envVars, selected, mainPort, killAlls, kubectlFailed>>
    /\ UNCHANGED mainFrame

\* displayForwards and selector.Select: what the loop does with the answer
MainSelect(answer) ==
    /\ mainPc = "select"
    /\ answer.mode \in {"cancel", "kill_all", "cluster", "nomatch"}
    /\ IF headless = Interactive
       THEN answer.mode # "nomatch"
       ELSE answer = headless
    /\ CASE answer.mode = "cancel" ->
              MainEnds(Ended("cancelled", "none", "none"))
         [] answer.mode = "nomatch" ->
              MainEnds(Ended("error", "none", "none"))
         [] answer.mode = "kill_all" ->
              /\ mainPc' = "killAll"
              /\ UNCHANGED <<mainRes, selected, headless, mainPort, killAlls>>
         [] answer.mode = "cluster" ->
              /\ mainPc' = "connect"
              /\ selected' = answer.name
              /\ UNCHANGED <<mainRes, headless, mainPort, killAlls>>
    /\ UNCHANGED <<envVars, procs, runs, kubectlFailed>>
    /\ UNCHANGED mainFrame

\* ssm.StopAll(); kubeconfig.MarkAllLocalhostInactive(); continue
MainKillAll(scanOk, failing) ==
    /\ mainPc = "killAll"
    /\ procs' = IF scanOk
                THEN Without(procs, PidsOf(ListForwards(procs, listening)))
                ELSE procs
    /\ registry' = SetClusters(registry, MarkAllLocalhostInactive(registry),
                               failing)
    /\ kubectlFailed' = (kubectlFailed
                          \/ registry' # MarkAllLocalhostInactive(registry))
    /\ killAlls' = IF killAlls < MaxKillAlls THEN killAlls + 1 ELSE killAlls
    /\ mainPc' = "select"
    /\ UNCHANGED <<listening, headless, selected, mainPort, mainRes, runs>>
    /\ UNCHANGED mainFrame

\* the forwards of fs whose port ContextForPort gives the name n
ReusableFor(fs, reg, n) ==
    {i \in 1..Len(fs) : ContextForPort(reg, fs[i].LocalPort) = n}

\* connectSSM that passes by the fast path
MainFastPath_NeverReuses(scanOk, viewOk, switchOk, awsOk) ==
    /\ mainPc = "connect"
    /\ LET fs == IF scanOk THEN ListForwards(procs, listening) ELSE <<>> IN
         /\ kubectlFailed' = (kubectlFailed \/ (fs # <<>> /\ ~viewOk))
         /\ IF awsOk
            THEN /\ mainPc' = "start"
                 /\ mainRes' = Passed(ScanState(scanOk))
                 /\ UNCHANGED <<headless, selected, mainPort, killAlls>>
            ELSE MainEnds(Ended("failed", "new", ScanState(scanOk)))
    /\ UNCHANGED <<envVars, procs, runs>>
    /\ UNCHANGED mainFrame

\* connectSSM up to the StartForward call: the fast path, then Authenticate,
\* DescribeCluster and FindBastion
MainFastPath(scanOk, viewOk, switchOk, awsOk) ==
    /\ mainPc = "connect"
    /\ LET fs == IF scanOk THEN ListForwards(procs, listening) ELSE <<>> IN
         IF viewOk /\ ReusableFor(fs, registry, selected) # {}
         THEN /\ MainEnds(Ended(IF switchOk THEN "connected" ELSE "failed",
                                "reused", ScanState(scanOk)))
              /\ kubectlFailed' = (kubectlFailed \/ ~switchOk)
         ELSE /\ kubectlFailed' = (kubectlFailed \/ (fs # <<>> /\ ~viewOk))
              /\ IF awsOk
                 THEN /\ mainPc' = "start"
                      /\ mainRes' = Passed(ScanState(scanOk))
                      /\ UNCHANGED <<headless, selected, mainPort, killAlls>>
                 ELSE MainEnds(Ended("failed", "new", ScanState(scanOk)))
    /\ UNCHANGED <<envVars, procs, runs>>
    /\ UNCHANGED mainFrame

\* connectDirect, for a cluster configured with DirectConnect
MainConnectDirect(awsOk, setOk) ==
    /\ mainPc = "connect"
    /\ IF awsOk /\ setOk
       THEN /\ registry' = [registry EXCEPT ![selected] = Endpoint]
            /\ MainEnds(Ended("connected", "direct", "none"))
       ELSE /\ registry' = registry
            /\ MainEnds(Ended("failed", "direct", "none"))
    /\ kubectlFailed' = (kubectlFailed \/ (awsOk /\ ~setOk))
    /\ UNCHANGED <<listening, procs, runs>>
    /\ UNCHANGED mainFrame

\* StartForward called with an empty reservedPorts and no callback
MainLaunch_Unguarded(viewOk, failing, launchOk) ==
    /\ mainPc = "start"
    /\ LET r == FindAvailablePort({}, listening) IN
         IF r.err # "nil"
         THEN /\ MainEnds(Ended("failed", "new", mainRes.scan))
              /\ UNCHANGED <<registry, procs, kubectlFailed>>
         ELSE /\ UNCHANGED <<registry, kubectlFailed>>
              /\ IF launchOk /\ FreePids(procs) # {}
                 THEN /\ procs' = [procs EXCEPT ![NextPid(procs)] =
                                     Tunnel(HostOf(selected), r.port)]
                      /\ mainPc' = "poll"
                      /\ mainPort' = r.port
                      /\ UNCHANGED <<mainRes, headless, selected, killAlls>>
                 ELSE /\ procs' = procs
                      /\ MainEnds(Ended("failed", "new", mainRes.scan))
    /\ UNCHANGED <<listening, runs>>
    /\ UNCHANGED mainFrame

\* StartForward(..., kubeconfig.PortsInUse(), kubeconfig.MarkPortInactive)
\* up to cmd.Start: the allocation, markInactive, the log, the launch
MainLaunch(viewOk, failing, launchOk) ==
    /\ mainPc = "start"
    /\ LET reserved == IF viewOk THEN PortsInUse(registry) ELSE {}
           r == FindAvailablePort(reserved, listening)
       IN
         IF r.err # "nil"
         THEN /\ MainEnds(Ended("failed", "new", mainRes.scan))
              /\ kubectlFailed' = (kubectlFailed \/ ~viewOk)
              /\ UNCHANGED <<registry, procs>>
         ELSE /\ registry' = SetClusters(registry,
                                         MarkPortInactive(registry, r.port),
                                         failing)
              /\ kubectlFailed' =
                    (kubectlFailed \/ ~viewOk
                     \/ registry' # MarkPortInactive(registry, r.port))
              /\ IF launchOk /\ FreePids(procs) # {}
                 THEN /\ procs' = [procs EXCEPT ![NextPid(procs)] =
                                     Tunnel(HostOf(selected), r.port)]
                      /\ mainPc' = "poll"
                      /\ mainPort' = r.port
                      /\ UNCHANGED <<mainRes, headless, selected, killAlls>>
                 ELSE /\ procs' = procs
                      /\ MainEnds(Ended("failed", "new", mainRes.scan))
    /\ UNCHANGED <<listening, runs>>
    /\ UNCHANGED mainFrame

\* the readiness poll of StartForward as connectSSM sees it: the port, or
\* ProcessDied or Timeout and os.Exit(1)
MainPoll ==
    /\ mainPc = "poll"
    /\ IF IsPortListening(mainPort, listening)
       THEN /\ mainPc' = "setCluster"
            /\ UNCHANGED <<mainRes, headless, selected, mainPort, killAlls>>
       ELSE MainEnds(Ended("failed", "new", mainRes.scan))
    /\ UNCHANGED <<envVars, procs, runs, kubectlFailed>>
    /\ UNCHANGED mainFrame

\* kubeconfig.SetClusterSSM(cluster.Name, ..., port): the first command sets
\* the server; done tells how far runAll got: "none", "server" or "all"
MainSetCluster(done) ==
    /\ mainPc = "setCluster"
    /\ done \in {"none", "server", "all"}
    /\ registry' = IF done = "none" THEN registry
                   ELSE [registry EXCEPT ![selected] = Localhost(mainPort)]
    /\ kubectlFailed' = (kubectlFailed \/ done # "all")
    /\ MainEnds(Ended(IF done = "all" THEN "connected" ELSE "failed", "new",
                      mainRes.scan))
    /\ UNCHANGED <<listening, procs, runs>>
    /\ UNCHANGED mainFrame

(***************************************************************************)
(* Calls of the registry operations                                        *)
(*                                                                         *)
(* kubectl is the environment: kubectl config view may fail, and then the  *)
(* operation returns at once; each kubectl config set-cluster may fail,    *)
(* and the error is dropped.  A failed view changes as little as a failure *)
(* of every set-cluster.                                                   *)
(***************************************************************************)
NoCall == [op |-> "none", port |-> NoPort, failing |-> {}]

\* kubeconfig.MarkPortInactive(p)
CallMarkPortInactive(p, failing) ==
    /\ regPrev' = registry
    /\ regCall' = [op |-> "MarkPortInactive", port |-> p, failing |-> failing]
    /\ registry' = SetClusters(registry, MarkPortInactive(registry, p),
                               failing)
    /\ UNCHANGED <<listening, sfVars, tableVars, parseVars, cleanVars,
                   launcherVars, peerVars, writerVars, mainVars>>

\* kubeconfig.MarkAllLocalhostInactive()
CallMarkAllLocalhostInactive(failing) ==
    /\ regPrev' = registry
    /\ regCall' = [op |-> "MarkAllLocalhostInactive", port |-> NoPort,
                   failing |-> failing]
    /\ registry' = SetClusters(registry, MarkAllLocalhostInactive(registry),
                               failing)
    /\ UNCHANGED <<listening, sfVars, tableVars, parseVars, cleanVars,
                   launcherVars, peerVars, writerVars, mainVars>>

\* no line of ps is being parsed
ParseIdle ==
    /\ launch = NoLaunch
    /\ foreign = NoForeign
    /\ psLine = <<>>
    /\ parsed = NotParsed

\* the log directory is empty and CleanOldLogs has not been called
CleanIdle ==
    /\ logDir = [f \in Files |-> NoEntry]
    /\ now = StartTime
    /\ dirReadable = TRUE
    /\ cleanedAt = StartTime
    /\ changedSince = FALSE
    /\ cleanLog = <<>>
    /\ logOwner = [f \in Files |-> "none"]

\* the launching process runs
LauncherIdle ==
    /\ launcher = "running"

\* no second instance of the program runs
PeerIdle ==
    /\ peerPc = "idle"
    /\ peerReserved = {}
    /\ peerPort = NoPort

\* the operations that are specified on their own have not run
\* no session log writer is in use
WriterIdle ==
    /\ twPending = <<>>
    /\ twWritten = <<>>
    /\ twBuf = <<>>
    /\ twOut = <<>>
    /\ twCalls = 0
    /\ twRet = NoWrite

\* no registry operation is being looked at
RegIdle ==
    /\ regPrev = <<>>
    /\ regCall = NoCall

\* the program is not run
MainIdle ==
    /\ mainPc = "off"
    /\ headless = Interactive
    /\ selected = NoName
    /\ mainPort = NoPort
    /\ mainRes = NoRun
    /\ killAlls = 0
    /\ runs = 0
    /\ kubectlFailed = FALSE

MoreIdle ==
    /\ WriterIdle
    /\ RegIdle
    /\ MainIdle

ExtraIdle ==
    /\ ParseIdle
    /\ CleanIdle
    /\ LauncherIdle
    /\ PeerIdle
    /\ MoreIdle

\* no scan and no lifecycle operation has run
TableIdle ==
    /\ procs = EmptyTable
    /\ psOut = EmptyTable
    /\ scanIdx = 0
    /\ seenPorts = {}
    /\ forwards = <<>>
    /\ probeAt = NoProbes
    /\ lcOp = "none"
    /\ lcPc = "idle"
    /\ hostsLeft = {}
    /\ victims = <<>>
    /\ count = 0
    /\ signals = {}
    /\ kills = <<>>
    /\ sent = <<>>
    /\ result = NoResult

\* no StartForward call runs
SfIdle ==
    /\ registry = [n \in Names |-> Absent]
    /\ reservedPorts = {}
    /\ sfPc = "idle"
    /\ port = NoPort
    /\ markCalls = <<>>
    /\ logFile = <<>>
    /\ logOpen = FALSE
    /\ child = "none"
    /\ cmdline = NoCmd
    /\ exited = 0
    /\ waited = FALSE
    /\ attempt = 0
    /\ outcome = NoOutcome

(***************************************************************************)
(* Specification of one StartForward call, as connectSSM makes it          *)
(***************************************************************************)
Init ==
    /\ listening \in SUBSET PortRange
    /\ registry \in [Names -> Servers]
    /\ reservedPorts = PortsInUse(registry)
    /\ sfPc = "allocate"
    /\ port = NoPort
    /\ markCalls = <<>>
    /\ logFile = <<>>
    /\ logOpen = FALSE
    /\ child = "none"
    /\ cmdline = NoCmd
    /\ exited = 0
    /\ waited = FALSE
    /\ attempt = 0
    /\ outcome = NoOutcome
    /\ TableIdle
    /\ ExtraIdle

SfStep ==
    \/ SfAllocate
    \/ SfMarkInactive
    \/ SfCreateLog
    \/ SfStart
    \/ SfPoll

Next ==
    \/ SfStep
    \/ ExitObserver
    \/ ChildExits
    \/ ChildWrites
    \/ \E p \in PortRange : PortOpens(p)
    \/ \E p \in PortRange : PortCloses(p)

Spec == Init /\ [][Next]_vars

(***************************************************************************)
(* Specification of one scan of the process table                          *)
(***************************************************************************)
ScanInit ==
    /\ listening \in SUBSET PortRange
    /\ procs \in [Pids -> ProcLines]
    /\ SfIdle
    /\ psOut = EmptyTable
    /\ scanIdx = 0
    /\ seenPorts = {}
    /\ forwards = <<>>
    /\ probeAt = NoProbes
    /\ lcOp = "none"
    /\ lcPc = "idle"
    /\ hostsLeft = {}
    /\ victims = <<>>
    /\ count = 0
    /\ signals = {}
    /\ kills = <<>>
    /\ sent = <<>>
    /\ result = NoResult
    /\ ExtraIdle

ScanNext ==
    \/ ScanBegin
    \/ ScanStep
    \/ \E p \in PortRange : ScanPortOpens(p)
    \/ \E p \in PortRange : ScanPortCloses(p)

ScanSpec == ScanInit /\ [][ScanNext]_vars

(***************************************************************************)
(* Specification of the lifecycle controller: StopAll, PruneDuplicates and  *)
(* displayForwards called one after the other while processes come to      *)
(* their end and their pids are given to new processes                     *)
(***************************************************************************)
LifeInit ==
    /\ listening \in SUBSET PortRange
    /\ procs \in [Pids -> ProcLines]
    /\ SfIdle
    /\ psOut = EmptyTable
    /\ scanIdx = 0
    /\ seenPorts = {}
    /\ forwards = <<>>
    /\ probeAt = NoProbes
    /\ lcOp = "none"
    /\ lcPc = "idle"
    /\ hostsLeft = {}
    /\ victims = <<>>
    /\ count = 0
    /\ signals = {}
    /\ kills = <<>>
    /\ sent = <<>>
    /\ result = NoResult
    /\ ExtraIdle

LifeNext ==
    \/ StopAllBegin
    \/ PruneBegin
    \/ PruneNextHost
    \/ KillTerm
    \/ KillForce
    \/ LcReturn
    \/ \E pid \in Pids : ProcExits(pid)
    \/ \E pid \in Pids : PidReused(pid)
    \/ DisplayForwards

LifeSpec == LifeInit /\ [][LifeNext]_vars

\* the calling flow keeps running: whatever the environment does, the next
\* step of StartForward is eventually taken
LiveSpec == Init /\ [][Next]_vars /\ WF_vars(SfStep)

(***************************************************************************)
(* Specification of parseLine applied to one line of ps                    *)
(***************************************************************************)
ParseInit ==
    /\ listening = {}
    /\ SfIdle
    /\ TableIdle
    /\ CleanIdle
    /\ LauncherIdle
    /\ PeerIdle
    /\ MoreIdle
    /\ \/ \E pid \in Pids, h \in HostStrings, p \in PortRange :
            LaunchedLine(pid, h, p)
       \/ \E f \in PidFields, ps \in ParamLists : ForeignLine(f, ps)
    /\ parsed = NotParsed

ParseNext == ParseLine

ParseSpec == ParseInit /\ [][ParseNext]_vars

(***************************************************************************)
(* Specification of CleanOldLogs called while time passes and logs are     *)
(* written                                                                 *)
(***************************************************************************)
CleanInit ==
    /\ listening = {}
    /\ SfIdle
    /\ TableIdle
    /\ ParseIdle
    /\ LauncherIdle
    /\ PeerIdle
    /\ MoreIdle
    /\ logDir \in [Files -> Entries]
    /\ now = StartTime
    /\ dirReadable \in BOOLEAN
    /\ cleanedAt = StartTime
    /\ changedSince = FALSE
    /\ cleanLog = <<>>
    /\ logOwner \in {o \in [Files -> {"none", "alive", "gone"}] :
                        \A f \in Files :
                            o[f] # "none" => logDir[f].kind = "file"}

CleanNext ==
    \/ CleanOldLogs
    \/ Tick
    \/ \E f \in Files : LogWritten(f)
    \/ \E f \in Files : OwnerExits(f)

CleanSpec == CleanInit /\ [][CleanNext]_vars

(***************************************************************************)
(* Specification of one StartForward call and of the end of the process    *)
(* that makes it                                                           *)
(***************************************************************************)
DetachInit ==
    /\ listening \in SUBSET PortRange
    /\ registry = [n \in Names |-> Absent]
    /\ reservedPorts = {}
    /\ sfPc = "allocate"
    /\ port = NoPort
    /\ markCalls = <<>>
    /\ logFile = <<>>
    /\ logOpen = FALSE
    /\ child = "none"
    /\ cmdline = NoCmd
    /\ exited = 0
    /\ waited = FALSE
    /\ attempt = 0
    /\ outcome = NoOutcome
    /\ TableIdle
    /\ ExtraIdle

DetachNext ==
    \/ launcher = "running" /\ SfStep
    \/ launcher = "running" /\ ExitObserver
    \/ launcher = "running" /\ ChildWrites
    \/ ChildExits
    \/ \E p \in PortRange : PortOpens(p)
    \/ \E p \in PortRange : PortCloses(p)
    \/ LauncherInterrupted
    \/ LauncherExits
    \/ OrphanWrites

DetachSpec == DetachInit /\ [][DetachNext]_vars

(***************************************************************************)
(* Specification of two instances of the program that call StartForward    *)
(* at the same time, up to the launch of their tunnels                     *)
(***************************************************************************)
RaceInit ==
    /\ listening \in SUBSET PortRange
    /\ registry \in [Names -> Servers]
    /\ reservedPorts = PortsInUse(registry)
    /\ sfPc = "allocate"
    /\ port = NoPort
    /\ markCalls = <<>>
    /\ logFile = <<>>
    /\ logOpen = FALSE
    /\ child = "none"
    /\ cmdline = NoCmd
    /\ exited = 0
    /\ waited = FALSE
    /\ attempt = 0
    /\ outcome = NoOutcome
    /\ TableIdle
    /\ ParseIdle
    /\ CleanIdle
    /\ LauncherIdle
    /\ MoreIdle
    /\ peerPc = "snapshot"
    /\ peerReserved = {}
    /\ peerPort = NoPort

RaceNext ==
    \/ SfAllocate
    \/ SfMarkInactive
    \/ SfCreateLog
    \/ SfStart
    \/ PeerSnapshot
    \/ PeerAllocate
    \/ PeerMarkInactive
    \/ PeerLaunch
    \/ \E p \in PortRange : PortOpens(p)
    \/ \E p \in PortRange : PortCloses(p)

RaceSpec == RaceInit /\ [][RaceNext]_vars

(***************************************************************************)
(* Specification of the session log writer fed a byte sequence in chunks   *)
(***************************************************************************)
WriterInit ==
    /\ listening = {}
    /\ SfIdle
    /\ TableIdle
    /\ ParseIdle
    /\ CleanIdle
    /\ LauncherIdle
    /\ PeerIdle
    /\ RegIdle
    /\ MainIdle
    /\ twPending \in BytesUpTo(MaxBytes)
    /\ twWritten = <<>>
    /\ twBuf = <<>>
    /\ twOut = <<>>
    /\ twCalls = 0
    /\ twRet = NoWrite

WriterNext == \E k \in 1..MaxBytes : WriteChunk(k)

WriterSpec == WriterInit /\ [][WriterNext]_vars

(***************************************************************************)
(* Specification of the registry operations applied to any kubeconfig      *)
(***************************************************************************)
RegInit ==
    /\ listening = {}
    /\ registry \in [Names -> AnyServers]
    /\ reservedPorts = {}
    /\ sfPc = "idle"
    /\ port = NoPort
    /\ markCalls = <<>>
    /\ logFile = <<>>
    /\ logOpen = FALSE
    /\ child = "none"
    /\ cmdline = NoCmd
    /\ exited = 0
    /\ waited = FALSE
    /\ attempt = 0
    /\ outcome = NoOutcome
    /\ TableIdle
    /\ ParseIdle
    /\ CleanIdle
    /\ LauncherIdle
    /\ PeerIdle
    /\ WriterIdle
    /\ MainIdle
    /\ regPrev = registry
    /\ regCall = NoCall

RegNext ==
    \/ \E p \in PortRange, failing \in SUBSET Names :
         CallMarkPortInactive(p, failing)
    \/ \E failing \in SUBSET Names : CallMarkAllLocalhostInactive(failing)

RegSpec == RegInit /\ [][RegNext]_vars

(***************************************************************************)
(* Specification of runs of the program, one after the other               *)
(***************************************************************************)
\* no two entries that PortsInUse counts have the same port
NoSharedPort(reg) ==
    \A n, m \in Counted(reg) :
        n # m => Atoi(TrimPrefix(reg[n], LocalhostPrefix)).n
                   # Atoi(TrimPrefix(reg[m], LocalhostPrefix)).n

MainInit ==
    /\ listening = {}
    /\ registry = [n \in Names |-> Absent]
    /\ reservedPorts = {}
    /\ sfPc = "idle"
    /\ port = NoPort
    /\ markCalls = <<>>
    /\ logFile = <<>>
    /\ logOpen = FALSE
    /\ child = "none"
    /\ cmdline = NoCmd
    /\ exited = 0
    /\ waited = FALSE
    /\ attempt = 0
    /\ outcome = NoOutcome
    /\ TableIdle
    /\ ParseIdle
    /\ CleanIdle
    /\ LauncherIdle
    /\ PeerIdle
    /\ WriterIdle
    /\ RegIdle
    /\ MainIdle

\* the steps of the program
MainStep ==
    \/ \E answer \in Selections \cup {[mode |-> "cancel", name |-> NoName]} :
         MainSelect(answer)
    \/ \E scanOk \in BOOLEAN, failing \in SUBSET Names :
         MainKillAll(scanOk, failing)
    \/ \E scanOk, viewOk, switchOk, awsOk \in BOOLEAN :
         MainFastPath(scanOk, viewOk, switchOk, awsOk)
    \/ \E awsOk, setOk \in BOOLEAN : MainConnectDirect(awsOk, setOk)
    \/ \E viewOk, launchOk \in BOOLEAN, failing \in SUBSET Names :
         MainLaunch(viewOk, failing, launchOk)
    \/ MainPoll
    \/ \E done \in {"none", "server", "all"} : MainSetCluster(done)

MainNext ==
    \/ \E h \in Selections, scanOk \in BOOLEAN : MainStart(h, scanOk)
    \/ MainStep
    \/ \E p \in PortRange : PortOpens(p)
    \/ \E p \in PortRange : PortCloses(p)
    \/ \E pid \in Pids : ProcExits(pid)

MainSpec == MainInit /\ [][MainNext]_vars

\* a started program keeps running
MainLiveSpec == MainInit /\ [][MainNext]_vars /\ WF_vars(MainStep)

(***************************************************************************)
(* Properties of the port allocator and of StartForward                    *)
(***************************************************************************)
\* the step of StartForward that returns
SfReturns == outcome.kind = "none" /\ outcome'.kind # "none"
\* a step that runs one iteration of the readiness poll
PollIteration == sfPc = "poll" /\ <<sfPc, attempt>>' # <<sfPc, attempt>>

\* C1: FindAvailablePort(R) returns the smallest port of the range that is
\* neither in R nor listening when probed, and fails with NoPortAvailable
\* iff every port of the range is in R or listening.
C1_SmallestFreePort ==
    [][(sfPc = "allocate" /\ sfPc' # "allocate") =>
         LET free == PortRange \ (reservedPorts \cup listening) IN
           /\ (free = {}) <=> (outcome'.kind = "NoPortAvailable")
           /\ (free = {}) <=> (sfPc' = "done")
           /\ free # {} => /\ port' \in free
                           /\ \A q \in free : port' <= q]_vars

\* a port was allocated above a reserved one
C1_Witness ==
    /\ sfPc = "mark"
    /\ port > PortLo
    /\ PortLo \in reservedPorts

\* C2: when the tunnel process has been launched, markInactive has been
\* called exactly once, with the allocated port, which is the port of the
\* launched command line and the port a successful StartForward returns.
C2_MarkInactiveBeforeLaunch ==
    child # "none" =>
        /\ markCalls = <<port>>
        /\ cmdline.localPortNumber = port
        /\ outcome.kind = "success" => outcome.port = port

\* a launched tunnel whose StartForward succeeded
C2_Witness ==
    /\ child # "none"
    /\ outcome.kind = "success"
    /\ markCalls = <<port>>

\* C3: a poll iteration that runs after the exit-observer has posted ends
\* StartForward with ProcessDied and the full log contents.
C3_ExitAbortsIteration ==
    [][(PollIteration /\ exited > 0) =>
         outcome' = Failure("ProcessDied", logFile)]_vars

\* C4: StartForward returns success only from a poll iteration in which the
\* allocated port accepted a connection, and returns that port.
C4_SuccessNeedsLiveProbe ==
    [][(SfReturns /\ outcome'.kind = "success") =>
         /\ sfPc = "poll"
         /\ port \in PortRange
         /\ IsPortListening(port, listening)
         /\ outcome'.port = port]_vars

\* StartForward returned success
C4_Witness ==
    /\ sfPc = "done"
    /\ outcome.kind = "success"
    /\ attempt > 1

\* C5: the poll never goes beyond maxAttempts attempts and every
\* StartForward call ends, in one of the six outcomes.
FinalOutcomes == {"success", "NoPortAvailable", "LogCreateError",
                  "LaunchError", "ProcessDied", "Timeout"}
C6_TimeoutAfterLastAttempt ==
    [][/\ (PollIteration /\ attempt = maxAttempts
            /\ ~IsPortListening(port, listening) /\ exited = 0)
           => outcome' = Failure("Timeout", logFile)
       /\ (SfReturns /\ outcome'.kind = "Timeout")
           => /\ PollIteration
              /\ attempt = maxAttempts
              /\ outcome'.log = logFile]_vars

\* StartForward timed out with child output in the log
C6_Witness ==
    /\ outcome.kind = "Timeout"
    /\ Len(outcome.log) > 1

(***************************************************************************)
(* Properties of the scanner and of the lifecycle controller               *)
(***************************************************************************)
\* the lifecycle operation op has returned after a successful scan
Returned(op) == lcPc = "done" /\ lcOp = op /\ result.err = "none"
\* the running tunnel processes
RunningTunnels == {pid \in Pids : procs[pid].kind = "tunnel"}
\* forwards[i] is the first forward of the scan to its target host
FirstOfHost(i) ==
    \A j \in 1..(i - 1) : forwards[j].TargetHost # forwards[i].TargetHost
\* the forwards of the scan to host h, in scan order, without the first
OthersOfHost(h) ==
    LET group == SelectSeq(forwards, LAMBDA f : f.TargetHost = h) IN
      IF group = <<>> THEN <<>> ELSE SubSeq(group, 2, Len(group))
\* sum over the hosts of (group size - 1)
Surplus == Len(forwards) - Cardinality(TargetHosts(forwards))

\* C7: after PruneDuplicates has returned, no two running tunnel processes
\* have the same target host.
C7_OneTunnelPerHost ==
    Returned("PruneDuplicates") =>
        \A a, b \in RunningTunnels : a # b => procs[a].host # procs[b].host

ScanDone == scanIdx = MaxProcs + 1
\* line j is a tunnel line with the local port of line i
SamePort(i, j) ==
    /\ psOut[i].kind = "tunnel"
    /\ psOut[j].kind = "tunnel"
    /\ psOut[i].lport = psOut[j].lport

\* C9 as claimed: the result has at most one Forward per local port, the
\* port of each accepted a connection when its line was examined, and the
\* Forward of a port comes from the first line that reports the port.
C9_FirstLineKept ==
    ScanDone =>
        /\ \A i, j \in 1..Len(forwards) :
             i # j => forwards[i].LocalPort # forwards[j].LocalPort
        /\ \A i \in 1..Len(forwards) :
             LET pid == forwards[i].PID IN
               /\ forwards[i] = Forward(pid, psOut[pid])
               /\ probeAt[pid] = "open"
               /\ \A j \in 1..(pid - 1) : ~SamePort(pid, j)

\* C9 as amended: the result has at most one Forward per local port, the
\* port of each accepted a connection when its line was examined, and the
\* Forward of a port comes from the first line reporting the port at which
\* the port accepted a connection; such a line is always kept.
C9_FirstLiveLineKept ==
    ScanDone =>
        /\ \A i, j \in 1..Len(forwards) :
             i # j => forwards[i].LocalPort # forwards[j].LocalPort
        /\ \A i \in 1..Len(forwards) :
             LET pid == forwards[i].PID IN
               /\ forwards[i] = Forward(pid, psOut[pid])
               /\ probeAt[pid] = "open"
               /\ \A j \in 1..(pid - 1) : SamePort(pid, j) => probeAt[j] = "closed"
        /\ \A pid \in Pids :
             (/\ probeAt[pid] = "open"
              /\ \A j \in 1..(pid - 1) : SamePort(pid, j) => probeAt[j] = "closed")
               => \E i \in 1..Len(forwards) : forwards[i].PID = pid

\* two lines report one port, which listens throughout: the first is kept
C9_Witness ==
    /\ ScanDone
    /\ \E i, j \in Pids :
         /\ i < j
         /\ SamePort(i, j)
         /\ probeAt[i] = "open"
         /\ probeAt[j] = "open"
         /\ \E k \in 1..Len(forwards) : forwards[k].PID = i

\* C10: after StopAll has returned, no tunnel process is running.
C10_NoTunnelLeft ==
    Returned("StopAll") => RunningTunnels = {}

(***************************************************************************)
(* Properties of StopAll and killProcess                                   *)
(***************************************************************************)
\* the Signal calls of the running operation that sent sig to pid
CallsTo(pid, sig) ==
    {j \in 1..Len(sent) : sent[j].pid = pid /\ sent[j].sig = sig}

\* C11: StopAll gives each forward of its scan to killProcess exactly once,
\* in the order of the scan, and returns the number of those calls that
\* returned true, a number between 0 and the number of forwards.
C11_StopAllKillsEachOnce ==
    Returned("StopAll") =>
        /\ Len(kills) = Len(forwards)
        /\ \A i \in 1..Len(forwards) :
             /\ kills[i].pid = forwards[i].PID
             /\ Cardinality(CallsTo(forwards[i].PID, "TERM")) = 1
        /\ result.count = Cardinality({i \in 1..Len(kills) : kills[i].ok})
        /\ result.count \in 0..Len(forwards)

\* StopAll has returned 1 after a scan that found two forwards
C11_Witness ==
    /\ Returned("StopAll")
    /\ Len(forwards) = 2
    /\ result.count = 1

\* C12: killProcess sends SIGTERM first and SIGKILL only after a SIGTERM
\* that was delivered and the grace period that follows it; it returns
\* false exactly when SIGTERM could not be delivered, at once and without
\* a SIGKILL, and true in every other case, the process having exited
\* before the SIGKILL or not.
C12_TermThenKill ==
    /\ [](\A j \in 1..Len(sent) :
            sent[j].sig = "KILL" =>
                /\ j > 1
                /\ sent[j - 1].sig = "TERM"
                /\ sent[j - 1].pid = sent[j].pid
                /\ sent[j - 1].to # "none")
    /\ [](\A i \in 1..Len(kills) :
            LET pid == kills[i].pid IN
              /\ Cardinality(CallsTo(pid, "TERM")) = 1
              /\ kills[i].ok <=>
                    \A j \in CallsTo(pid, "TERM") : sent[j].to # "none"
              /\ kills[i].ok <=> CallsTo(pid, "KILL") # {})
    /\ [][Len(kills') = Len(kills) + 1 =>
            IF kills'[Len(kills')].ok
            THEN lcPc = "grace"
            ELSE lcPc = "loop" /\ lcPc' = "loop"]_vars

\* one killProcess call has returned false, another one true although its
\* process had exited before the SIGKILL
C12_Witness ==
    /\ \E i \in 1..Len(kills) : ~kills[i].ok
    /\ \E i \in 1..Len(kills) :
         /\ kills[i].ok
         /\ \E j \in CallsTo(kills[i].pid, "KILL") : sent[j].to = "none"

\* C17: when ps fails, StopAll and PruneDuplicates return 0 without a
\* killProcess call or a signal, and displayForwards prints no forward.
C17_ScanFailureIsSilent ==
    result.err = "ps" =>
        /\ lcPc = "done"
        /\ result.count = 0
        /\ forwards = <<>>
        /\ kills = <<>>
        /\ sent = <<>>
        /\ signals = {}

\* StopAll has returned after a failed scan although the process table
\* holds a tunnel whose port is listening
C17_Witness ==
    /\ lcOp = "StopAll"
    /\ lcPc = "done"
    /\ result.err = "ps"
    /\ ListForwards(procs, listening) # <<>>

\* C20: every signal of killProcess goes to the tunnel process of the scan
\* or to nobody, never to another process that holds the pid by then.
C20_OnlyScannedTunnelSignalled ==
    \A j \in 1..Len(sent) : sent[j].to # "other"

(***************************************************************************)
(* Properties of the failures of StartForward before the poll              *)
(***************************************************************************)
\* C18: when the allocation fails StartForward returns the allocator's
\* error from its first step, with no markInactive call, no log file and
\* no process; when the log creation or the spawn fails it returns with no
\* tunnel process and without a readiness poll.
C18_EarlyFailuresLaunchNothing ==
    /\ [](outcome.kind = "NoPortAvailable" =>
            /\ port = NoPort
            /\ markCalls = <<>>
            /\ ~logOpen /\ logFile = <<>>
            /\ child = "none" /\ cmdline = NoCmd
            /\ attempt = 0)
    /\ [](outcome.kind \in {"LogCreateError", "LaunchError"} =>
            /\ child = "none" /\ cmdline = NoCmd
            /\ exited = 0 /\ ~waited
            /\ attempt = 0)
    /\ [][(SfReturns /\ outcome'.kind = "NoPortAvailable") =>
            /\ sfPc = "allocate"
            /\ registry' = registry]_vars

\* the allocation has failed with every port of the range reserved or
\* listening, some of each
C18_Witness ==
    /\ outcome.kind = "NoPortAvailable"
    /\ sfPc = "done"
    /\ reservedPorts # {}
    /\ listening # {}

(***************************************************************************)
(* Properties of parseLine                                                 *)
(***************************************************************************)
\* h with one leading https:// removed
WithoutHttps(h) == IF h # <<>> /\ Head(h) = Https THEN Tail(h) ELSE h

\* the Forward a launch is expected to be read back as
LaunchedForward ==
    [ok |-> TRUE, PID |-> launch.pid, LocalPort |-> launch.port,
     TargetHost |-> WithoutHttps(launch.targetHost),
     TargetPort |-> DefaultTargetPort]

\* a host name that is not empty and holds no separator and no key that
\* parseLine looks for behind the host
PlainHost(h) ==
    /\ h # <<>>
    /\ \A i \in 1..Len(h) : h[i] \notin {Comma, Space, KeyPort, KeyLocal}

FirstValue(key) ==
    LET ps == foreign.params
        at == {i \in 1..Len(ps) : ps[i].key = key}
    IN IF at = {} THEN <<>>
       ELSE ps[CHOOSE i \in at : \A j \in at : i <= j].val
\* the value is a decimal numeral
IsInteger(v) == \E n \in NumVals : v = <<Itoa(n)>>
IntegerOf(v) == CHOOSE n \in NumVals : v = <<Itoa(n)>>

\* C14: parseLine discards a line without a host= value, without a
\* localPortNumber= value or with a local port that is no integer; for a
\* line it accepts the target port is the integer after portNumber= when
\* there is one, 443 when the key is missing or its value is no integer.
C14_DiscardsAndDefaults ==
    (foreign # NoForeign /\ parsed.done) =>
        /\ (\/ FirstValue(KeyHost) = <<>>
            \/ FirstValue(KeyLocal) = <<>>
            \/ ~IsInteger(FirstValue(KeyLocal))) => ~parsed.fwd.ok
        /\ parsed.fwd.ok =>
              parsed.fwd.TargetPort =
                  IF IsInteger(FirstValue(KeyPort))
                  THEN IntegerOf(FirstValue(KeyPort))
                  ELSE DefaultTargetPort

\* a line was accepted whose portNumber= value is no integer
C14_Witness ==
    /\ parsed.done
    /\ parsed.fwd.ok
    /\ FirstValue(KeyPort) = <<"a">>
    /\ parsed.fwd.TargetPort = DefaultTargetPort

(***************************************************************************)
(* Properties of CleanOldLogs                                              *)
(***************************************************************************)
\* the entry is a file modified more than 24 hours before the time t
OldFile(e, t) == e.kind = "file" /\ t - e.modTime > RetentionHours

C15_TunnelOutlivesLauncher ==
    launcher # "running" => child # "killed"

(***************************************************************************)
(* Properties of overlapping StartForward calls                            *)
(***************************************************************************)
\* the call of this instance holds its port: allocated, tunnel not returned
HoldsPort == sfPc \in {"mark", "createLog", "start", "poll"}

\* C16: nothing keeps the port that one StartForward call holds from a
\* second call: while the tunnel of the first is not listening yet, the
\* second is allocated that port or a lower one, and that very port when
\* no lower one is free, so that two launches in flight on one port are
\* reachable.
C16_HeldPortIsNotWithheld ==
    [][(/\ peerPc = "allocate" /\ peerPc' # "allocate"
        /\ HoldsPort
        /\ ~IsPortListening(port, listening)) =>
          /\ peerPort' \in PortLo..port
          /\ (\A q \in PortLo..(port - 1) :
                 q \in peerReserved \cup listening) => peerPort' = port]_vars

\* both calls have launched their tunnel for the same port
C16_Witness ==
    /\ sfPc = "poll"
    /\ peerPc = "poll"
    /\ port # NoPort
    /\ peerPort = port

(***************************************************************************)
(* Properties of the pid of a scanned line                                 *)
(***************************************************************************)
\* C21: a line whose first field is not a positive integer is discarded, so
\* that the pid of every Forward parseLine returns is positive.
C21_PidIsPositive ==
    (parsed.done /\ parsed.fwd.ok) => parsed.fwd.PID > 0

(***************************************************************************)
(* Properties of the completion signal of StartForward                     *)
(***************************************************************************)
\* C22: the exit observer posts on the completion channel only after the
\* child has terminated and at most once (the channel never holds more than
\* one value); its send is possible at once whenever the child has
\* terminated and it has not yet posted, whether the poll loop is still
\* running or StartForward has returned; the poll loop's check is possible
\* whenever the loop is at it, signal or no signal.
C22_SignalNeverBlocks ==
    /\ [](exited <= 1)
    /\ [](waited => child = "exited")
    /\ []((child = "exited" /\ ~waited) => ENABLED ExitObserver)
    /\ [](sfPc = "poll" => ENABLED SfPoll)
    /\ [][exited' > exited =>
            (child = "exited" /\ ~waited /\ waited'
             /\ exited' = exited + 1)]_vars
    /\ [][waited => (waited' /\ exited' <= exited)]_vars

\* the observer has posted after StartForward had returned on the timeout,
\* and nobody consumes the signal
C22_Witness ==
    /\ sfPc = "done"
    /\ outcome.kind = "Timeout"
    /\ waited
    /\ exited = 1

(***************************************************************************)
(* Properties of what one StartForward call does at most once              *)
(***************************************************************************)
\* the position of a step of StartForward in the order of its code
SfRank(pc) ==
    CASE pc = "allocate" -> 0
      [] pc = "mark" -> 1
      [] pc = "createLog" -> 2
      [] pc = "start" -> 3
      [] pc = "poll" -> 4
      [] pc = "done" -> 5

\* a step of StartForward itself, not of the child or of the environment
SfActs == sfPc' # sfPc \/ attempt' # attempt

\* C26: one StartForward call never goes back to an earlier step: it
\* allocates a port at most once, calls markInactive at most once and
\* launches at most one process, and once it has returned with any outcome
\* (ProcessDied and Timeout included) it takes no further step.
C26_NothingRetries ==
    /\ [](Len(markCalls) <= 1)
    /\ [](outcome.kind # "none" => (sfPc = "done" /\ ~ENABLED SfStep))
    /\ [][SfRank(sfPc') >= SfRank(sfPc)]_vars
    /\ [][port' # port => (sfPc = "allocate" /\ sfPc' # "allocate"
                           /\ port = NoPort)]_vars
    /\ [][markCalls' # markCalls => (sfPc = "mark" /\ sfPc' # "mark"
                                     /\ markCalls = <<>>)]_vars
    /\ [][(child' = "running" /\ child # "running") =>
            (child = "none" /\ sfPc = "start" /\ sfPc' # "start")]_vars
    /\ [][cmdline' # cmdline => cmdline = NoCmd]_vars

\* StartForward has returned ProcessDied after one allocation, one
\* markInactive call and one launch
C26_Witness ==
    /\ outcome.kind = "ProcessDied"
    /\ child = "exited"
    /\ port # NoPort
    /\ markCalls = <<port>>
    /\ cmdline.localPortNumber = port

\* C29: no step of StartForward ends the process it launched: the child
\* stops running only by itself, a Timeout return leaves a running child
\* running, and after the markInactive step no step of StartForward, the
\* four failure returns included, changes the registry again.
C29_ChildAndRegistryLeftAlone ==
    /\ [](child \in {"none", "running", "exited"})
    /\ [][(SfActs /\ child = "running") => child' = "running"]_vars
    /\ [][(SfReturns /\ outcome'.kind = "Timeout") => child' = child]_vars
    /\ [][sfPc \notin {"allocate", "mark"} => registry' = registry]_vars
    /\ [][(SfReturns /\ outcome'.kind \in {"LogCreateError", "LaunchError",
                                            "ProcessDied", "Timeout"}) =>
            (markCalls = <<port>> /\ registry' = registry
             /\ port \notin PortsInUse(registry'))]_vars

\* StartForward has failed with Timeout and the child is still running
C29_Witness ==
    /\ outcome.kind = "Timeout"
    /\ sfPc = "done"
    /\ child = "running"
    /\ markCalls = <<port>>

(***************************************************************************)
(* Properties of the session log writer                                    *)
(***************************************************************************)
\* the positions of the newlines of b
NewlinesOf(b) == {i \in 1..Len(b) : b[i] = Newline}
\* the position of the last newline of b before position i, 0 for none
NewlineBefore(b, i) ==
    IF \E j \in NewlinesOf(b) : j < i
    THEN CHOOSE j \in NewlinesOf(b) :
           j < i /\ \A m \in NewlinesOf(b) : m < i => m <= j
    ELSE 0
\* the line of b that the newline at position i terminates
LineEndingAt(b, i) == SubSeq(b, NewlineBefore(b, i) + 1, i - 1)
\* the positions of the newlines of b that terminate a non-empty line
LineEnds(b) == {i \in NewlinesOf(b) : LineEndingAt(b, i) # <<>>}
\* the part of b after its last newline
Unterminated(b) == SubSeq(b, NewlineBefore(b, Len(b) + 1) + 1, Len(b))

\* the log with every timestamp replaced by one word
RECURSIVE Undated(_)
Undated(w) ==
    IF w = <<>> THEN <<>>
    ELSE IF Head(w) = LineOpen
    THEN <<LineOpen, "ts">> \o Undated(Tail(Tail(w)))
    ELSE <<Head(w)>> \o Undated(Tail(w))

\* the log that has the non-empty lines of b that end at the positions of
\* ends, in order, each one once and with the prefix
RECURSIVE LogOf(_, _)
LogOf(b, ends) ==
    IF ends = {} THEN <<>>
    ELSE LET i == CHOOSE e \in ends : \A m \in ends : e <= m IN
           <<LineOpen, "ts", LineTag>> \o LineEndingAt(b, i) \o <<Newline>>
             \o LogOf(b, ends \ {i})

\* C23: after any number of Write calls, however the bytes were cut, the
\* log holds exactly the non-empty newline-terminated lines of the bytes
\* written so far, in order, each once, with timestamp and tag; the part
\* after the last newline is in the buffer and not in the log; and every
\* Write returns the length of its input.
C23_OutputIndependentOfChunks ==
    /\ Undated(twOut) = LogOf(twWritten, LineEnds(twWritten))
    /\ twBuf = Unterminated(twWritten)
    /\ twRet.n = twRet.len

\* a line was cut in the middle by two Write calls and has been emitted,
\* after an empty line, while a further partial line waits in the buffer
C23_Witness ==
    /\ twCalls >= 2
    /\ twRet.len >= 1
    /\ twBuf # <<>>
    /\ twOut # <<>>
    /\ \E i \in NewlinesOf(twWritten) : LineEndingAt(twWritten, i) = <<>>
    /\ \E i \in LineEnds(twWritten) :
         /\ i > Len(twWritten) - twRet.len
         /\ NewlineBefore(twWritten, i) + 1 <= Len(twWritten) - twRet.len

(***************************************************************************)
(* Properties of the registry operations                                   *)
(***************************************************************************)
\* a MarkPortInactive call has just returned
MarkedPort == regCall.op = "MarkPortInactive"
\* a MarkAllLocalhostInactive call has just returned
MarkedAll == regCall.op = "MarkAllLocalhostInactive"
\* every server that PortsInUse counts has its port as fmt writes it
Canonical(reg) ==
    \A n \in Counted(reg) :
        reg[n] = Localhost(Atoi(TrimPrefix(reg[n], LocalhostPrefix)).n)

FastPathStep ==
    mainPc = "connect" /\ mainPc' # "connect" /\ mainRes'.path # "direct"
\* the scan of that step succeeds and returns a live forward whose port the
\* active entry of the selected cluster has
ForwardOfSelected ==
    /\ mainRes'.scan = "ok"
    /\ \E i \in DOMAIN ListForwards(procs, listening) :
         registry[selected] =
           Localhost(ListForwards(procs, listening)[i].LocalPort)
\* the step reuses a forward: the context is switched and the run ends with
\* no port allocated, no entry marked and no process launched
Reuses ==
    /\ mainRes' = Ended("connected", "reused", "ok")
    /\ mainPc' = "off"
    /\ mainPort' = NoPort
    /\ registry' = registry
    /\ procs' = procs

====
